---- MODULE Spec2Model ----
(***************************************************************************)
(* EMateRL decision & learning pipeline.                                   *)
(*                                                                         *)
(*   src/emate/micro/qlearning.py        QLearningNode (tabular learner)   *)
(*   src/emate/micro/action_map.py       ACTIONS, map_action_to_output      *)
(*   src/emate/micro/state_discretizer.py discretize_state                  *)
(*   src/emate/core/graph.py             PersonaDecisionGraph               *)
(*   src/emate/core/persona_guard.py     apply_persona_filter               *)
(*                                                                         *)
(* Specifications.  Spec and SpecLoad: calls as single steps, on a learner *)
(* built from its own or from any document.  SpecGreedy: epsilon 0.        *)
(* SpecScenario: the learning test.  SpecStages: run_once statement by     *)
(* statement.  SpecReward: reward() at any point.  SpecConc: two threads.  *)
(* SpecDisc: the discretizer applied to snapshots.  SpecFilter: the        *)
(* personality filter applied to any output.  SpecPipeline: run_once for   *)
(* every personality, with rewards fed back.  SpecOutputs: both.           *)
(* SpecSteps: update statement by statement.  SpecRestart: a new learner   *)
(* constructed on the document a previous one saved.                       *)
(*                                                                         *)
(* Numbers.  Python floats are modelled in fixed point: estimates and      *)
(* rewards are integers in units of 1/VUnit, epsilon in units of 1/EUnit.  *)
(* VUnit = 10 * 200^3, so three chained updates with alpha = 3/10 and      *)
(* gamma = 17/20 are exact, and six chained updates without a next state;  *)
(* beyond that \div rounds where the float would.                          *)
(*                                                                         *)
(* Python dicts keep insertion order and max() returns the first maximal   *)
(* element, so a row of the value table is a sequence of <<id, value>>.    *)
(***************************************************************************)
EXTENDS Integers, Sequences, FiniteSets, TLC

VARIABLES
    q_table,    \* QLearningNode.q_table
    epsilon,    \* QLearningNode.epsilon
    doc,        \* the file at QLearningNode.storage_path
    cfg,        \* the constructor arguments of the learner
    call,       \* the last call that returned or raised, with its arguments and result
    updates,    \* number of update() calls made so far (bounded by MaxUpdates)
    pc          \* the calls in progress: thread -> its position and local variables
                \* (empty where calls are modelled as single steps)

vars == <<q_table, epsilon, doc, cfg, call, updates, pc>>

-----------------------------------------------------------------------------
(* Bounds *)

\* longest list of memory episodes in a snapshot given to the discretizer
MaxEpisodes == 6

MaxUpdates == 2

\* longest spoken text, in tokens, of an output handed to a personality filter
MaxTokens == 2

-----------------------------------------------------------------------------
(* Action catalog: src/emate/micro/action_map.py *)

A_DEEP_WORK_MODE == "A_DEEP_WORK_MODE"
A_FOCUS_FLOW == "A_FOCUS_FLOW"
A_ENERGY_BOOST == "A_ENERGY_BOOST"
A_MOVEMENT_REMINDER == "A_MOVEMENT_REMINDER"
A_BREATHING_GUIDE == "A_BREATHING_GUIDE"
A_ENVIRONMENT_ADJUST == "A_ENVIRONMENT_ADJUST"
A_EMOTIONAL_SUPPORT == "A_EMOTIONAL_SUPPORT"
A_CELEBRATION == "A_CELEBRATION"
A_GENTLE_PRESENCE == "A_GENTLE_PRESENCE"
A_GOAL_PROGRESS == "A_GOAL_PROGRESS"
A_HABIT_NUDGE == "A_HABIT_NUDGE"
A_PERSONALIZED_INSIGHT == "A_PERSONALIZED_INSIGHT"
A_SPACE_OPTIMIZATION == "A_SPACE_OPTIMIZATION"
A_DISTRACTION_SHIELD == "A_DISTRACTION_SHIELD"
A_AMBIENT_COMPANION == "A_AMBIENT_COMPANION"
A_SET_REMINDER == "A_SET_REMINDER"
A_NONE == "A_NONE"

Actions ==      \* ACTIONS (a reserved word of TLA+)
    << A_DEEP_WORK_MODE, A_FOCUS_FLOW, A_ENERGY_BOOST,
       A_MOVEMENT_REMINDER, A_BREATHING_GUIDE, A_ENVIRONMENT_ADJUST,
       A_EMOTIONAL_SUPPORT, A_CELEBRATION, A_GENTLE_PRESENCE,
       A_GOAL_PROGRESS, A_HABIT_NUDGE, A_PERSONALIZED_INSIGHT,
       A_SPACE_OPTIMIZATION, A_DISTRACTION_SHIELD, A_AMBIENT_COMPANION,
       A_SET_REMINDER, A_NONE >>

CatalogIds == { Actions[i] : i \in 1..Len(Actions) }

-----------------------------------------------------------------------------
(* Fixed-point numbers *)

VUnit == 10 * 200 * 200 * 200      \* one unit of estimate / reward
EUnit == 1000 * 1000               \* one unit of epsilon

AlphaNum == 3                      \* alpha = 0.3
AlphaDen == 10
GammaNum == 17                     \* gamma = 0.85
GammaDen == 20
DecayNum == 995                    \* epsilon_decay = 0.995
DecayDen == 1000
EpsilonDefault == 300000           \* epsilon = 0.3      (in 1/EUnit)
MinEpsilonDefault == 50000         \* min_epsilon = 0.05 (in 1/EUnit)

Tenths(n) == n * (VUnit \div 10)   \* the reward n/10

MaxOf(a, b) == IF a >= b THEN a ELSE b

-----------------------------------------------------------------------------
(* JSON-shaped values: the value table and the persisted document.         *)
(* A value table is [shape, rows]: shape "dict" with rows a function from  *)
(* state keys to rows, or shape "other" for any JSON value that is not an  *)
(* object (a list, a number, a string, null).  A row is [shape, items]:    *)
(* shape "dict" with items the insertion-ordered <<id, value>> pairs, or   *)
(* "other" for a row that is not an object.                                *)

NoItems == << >>
NoRows == << >>

DictRow(items) == [shape |-> "dict", items |-> items]
OtherRow == [shape |-> "other", items |-> NoItems]
DictTable(rows) == [shape |-> "dict", rows |-> rows]
OtherTable == [shape |-> "other", rows |-> NoRows]
EmptyTable == DictTable(NoRows)

HasState(q, s) == q.shape = "dict" /\ s \in DOMAIN q.rows

RowKeys(row) == { row.items[i][1] : i \in 1..Len(row.items) }

RowHas(row, a) == \E i \in 1..Len(row.items) : row.items[i][1] = a

\* dict.get(a, default)
RowGet(row, a, default) ==
    IF RowHas(row, a)
    THEN row.items[CHOOSE i \in 1..Len(row.items) : row.items[i][1] = a][2]
    ELSE default

\* dict[a] = v : replace in place, or append at the end
RowSet(row, a, v) ==
    IF RowHas(row, a)
    THEN DictRow([i \in 1..Len(row.items) |->
                    IF row.items[i][1] = a THEN <<a, v>> ELSE row.items[i]])
    ELSE DictRow(Append(row.items, <<a, v>>))

\* max(row.values())
RowMax(row) ==
    CHOOSE m \in { row.items[i][2] : i \in 1..Len(row.items) } :
        \A i \in 1..Len(row.items) : row.items[i][2] <= m

\* variant: the last key whose value is maximal
ArgMaxLast(row) ==
    row.items[CHOOSE i \in 1..Len(row.items) :
                /\ row.items[i][2] = RowMax(row)
                /\ \A j \in (i + 1)..Len(row.items) : row.items[j][2] < RowMax(row)][1]

\* max(row, key=row.get) : the first key, in insertion order, whose value is maximal
ArgMaxFirst(row) ==
    row.items[CHOOSE i \in 1..Len(row.items) :
                /\ row.items[i][2] = RowMax(row)
                /\ \A j \in 1..(i - 1) : row.items[j][2] < RowMax(row)][1]

\* {a: 0.0 for a in self.actions}
FreshRow == DictRow([i \in 1..Len(Actions) |-> <<Actions[i], 0>>])

-----------------------------------------------------------------------------
(* The persisted document: src/emate/micro/qlearning.py, _load and _save    *)
(*   kind "missing"    no file at storage_path                             *)
(*   kind "unreadable" the path exists but open() raises                   *)
(*   kind "corrupt"    the file is not JSON (json.load raises)             *)
(*   kind "json"       json.load returns `content`                         *)

Doc(kind, content) == [kind |-> kind, content |-> content]
MissingDoc == Doc("missing", EmptyTable)
UnreadableDoc == Doc("unreadable", EmptyTable)
CorruptDoc == Doc("corrupt", EmptyTable)
JsonDoc(q) == Doc("json", q)

\* _load: q_table starts as {} and is replaced only when json.load succeeds
load(d) ==
    IF d.kind = "missing" THEN EmptyTable
    ELSE IF d.kind = "json" THEN d.content
    ELSE EmptyTable

\* How one _save call can end:
\*   "ok"          open() and json.dump() succeed: the file is the whole table
\*   "open_fails"  open(path, "w") raises: the file is as it was
\*   "write_fails" open(path, "w") has truncated the file, then json.dump or the
\*                 closing flush raises: a truncated file, which is not JSON
SaveOutcomes == {"ok", "open_fails", "write_fails"}

\* variant: rows that still hold only 0.0 are left out of the file
save_learned_rows(q, d, outcome) ==
    IF outcome = "ok"
    THEN JsonDoc(DictTable([k \in { s \in DOMAIN q.rows : q.rows[s] # FreshRow } |->
                                q.rows[k]]))
    ELSE IF outcome = "open_fails" THEN d
    ELSE CorruptDoc

save(q, d, outcome) ==
    IF outcome = "ok" THEN JsonDoc(q)
    ELSE IF outcome = "open_fails" THEN d
    ELSE CorruptDoc

-----------------------------------------------------------------------------
(* QLearningNode: src/emate/micro/qlearning.py *)

NoKey == "None"        \* next_state_id is None
NoResult == "None"

\* variant: a new row holds the first catalog action only
ensure_state_partial(q, s) ==
    IF s \in DOMAIN q.rows
    THEN q
    ELSE DictTable([k \in (DOMAIN q.rows) \cup {s} |->
                        IF k = s THEN DictRow(<< <<Actions[1], 0>> >>) ELSE q.rows[k]])

\* _ensure_state on a table that is a dict
ensure_state(q, s) ==
    IF s \in DOMAIN q.rows
    THEN q
    ELSE DictTable([k \in (DOMAIN q.rows) \cup {s} |->
                        IF k = s THEN FreshRow ELSE q.rows[k]])

\* `row.get`, `row.values()` and max() over the row raise for these rows
RowUnusable(row) == row.shape # "dict"
RowEmpty(row) == row.shape = "dict" /\ Len(row.items) = 0

\* variant: the next state's best estimate is not discounted
td_target_undiscounted(q, r, ns) ==
    IF ns = NoKey THEN r ELSE r + RowMax(q.rows[ns])

\* target = reward  |  reward + gamma * max(q_table[next_state_id].values())
td_target(q, r, ns) ==
    IF ns = NoKey
    THEN r
    ELSE r + ((GammaNum * RowMax(q.rows[ns])) \div GammaDen)

\* variant: nothing is learned
new_value_no_learning(current, target) == current

\* new_value = current + alpha * (target - current)
new_value(current, target) ==
    current + ((AlphaNum * (target - current)) \div AlphaDen)

\* variant: the new value is not written back
write_estimate_dropped(q, s, a, v) == q

\* self.q_table[state_id][action_id] = new_value
write_estimate(q, s, a, v) ==
    DictTable([q.rows EXCEPT ![s] = RowSet(q.rows[s], a, v)])

\* variant: the floor is not applied
decay_epsilon_no_floor(eps, c) == (eps * c.decay_num) \div c.decay_den

\* self.epsilon = max(self.min_epsilon, self.epsilon * self.epsilon_decay)
decay_epsilon(eps, c) ==
    MaxOf(c.min_epsilon, (eps * c.decay_num) \div c.decay_den)

\* select_action, exploration branch taken iff random.random() < epsilon:
\* possible iff epsilon > 0; the greedy branch is possible iff epsilon < 1
CanExplore(eps) == eps > 0
CanExploit(eps) == eps < EUnit

\* the greedy result: max(action_values, key=action_values.get)
greedy_action(row) == ArgMaxFirst(row)

\* select_action(): the table after the call and what it returns, as
\* [q, result, raised]; `i` is the position random.choice draws
select_explore(q, s, i) ==
    IF q.shape # "dict"
    THEN [q |-> q, result |-> NoResult, raised |-> TRUE]
    ELSE [q |-> ensure_state(q, s), result |-> Actions[i], raised |-> FALSE]

select_greedy(q, s) ==
    IF q.shape # "dict"
    THEN [q |-> q, result |-> NoResult, raised |-> TRUE]
    ELSE
    LET q1 == ensure_state(q, s) IN
    IF RowUnusable(q1.rows[s]) \/ RowEmpty(q1.rows[s])
    THEN [q |-> q1, result |-> NoResult, raised |-> TRUE]
    ELSE [q |-> q1, result |-> greedy_action(q1.rows[s]), raised |-> FALSE]

\* update(): the learner after the call, as [q, eps, doc, raised]
update_result(q, eps, d, c, s, a, r, ns, outcome) ==
    IF q.shape # "dict"
    THEN [q |-> q, eps |-> eps, doc |-> d, raised |-> TRUE]
    ELSE
    LET q1 == ensure_state(q, s) IN
    IF RowUnusable(q1.rows[s])
    THEN [q |-> q1, eps |-> eps, doc |-> d, raised |-> TRUE]
    ELSE
    LET current == RowGet(q1.rows[s], a, 0)
        q2 == IF ns = NoKey THEN q1 ELSE ensure_state(q1, ns)
    IN
    IF ns # NoKey /\ (RowUnusable(q2.rows[ns]) \/ RowEmpty(q2.rows[ns]))
    THEN [q |-> q2, eps |-> eps, doc |-> d, raised |-> TRUE]
    ELSE
    LET q3 == write_estimate(q2, s, a, new_value(current, td_target(q2, r, ns)))
    IN [q |-> q3, eps |-> decay_epsilon(eps, c), doc |-> save(q3, d, outcome),
        raised |-> FALSE]

-----------------------------------------------------------------------------
(* Inputs *)

\* the key the learning test feeds to reward(): src/emate/app/rl_scenario_tests.py:227
K_TEST == "RHYTHM_fragmented|HEALTH_healthy|EMOTION_overwhelmed|GOAL_important_progress|ENV_morning_chaotic"
K_OTHER == "RHYTHM_normal|HEALTH_healthy|EMOTION_distant|GOAL_goal_unclear|ENV_unknown_normal"

StateKeys == {K_TEST, K_OTHER}

Arg(s, a, r, ns) == [s |-> s, a |-> a, r |-> r, ns |-> ns]

\* arguments of direct update() calls: catalog ids, both reward signs, with and
\* without a next state, the next state equal to and different from the state
UpdateArgs ==
    { Arg(K_TEST, A_DEEP_WORK_MODE, Tenths(-3), NoKey),
      Arg(K_TEST, A_FOCUS_FLOW, Tenths(-3), K_TEST),
      Arg(K_OTHER, A_DISTRACTION_SHIELD, Tenths(8), K_TEST),
      Arg(K_OTHER, A_DISTRACTION_SHIELD, Tenths(8), K_OTHER) }

\* outcomes of random.choice(self.actions) that are explored: the first and the
\* last catalog position
ExploreDraws == {1, Len(Actions)}

\* constructor arguments (alpha and gamma are the defaults)
Config(eps, min_eps) ==
    [epsilon |-> eps, min_epsilon |-> min_eps,
     decay_num |-> DecayNum, decay_den |-> DecayDen]

DefaultConfig == Config(EpsilonDefault, MinEpsilonDefault)   \* QLearningNode(actions=ACTIONS)
GreedyConfig == Config(0, MinEpsilonDefault)                 \* QLearningNode(actions, epsilon=0.0)
NearFloorConfig == Config(MinEpsilonDefault + 100, MinEpsilonDefault)   \* epsilon=0.0501

\* a table the program itself has written: one full row, one learned estimate
SavedTable ==
    DictTable([k \in {K_TEST} |-> RowSet(FreshRow, A_FOCUS_FLOW, Tenths(5))])

Start(d, c) == [doc |-> d, cfg |-> c]

\* the document found and the constructor arguments used
Starts ==
    { Start(MissingDoc, DefaultConfig), Start(JsonDoc(SavedTable), DefaultConfig),
      Start(MissingDoc, GreedyConfig), Start(JsonDoc(SavedTable), NearFloorConfig) }

-----------------------------------------------------------------------------
(* Context snapshot: src/emate/core/contracts.py, InputState               *)
(*   user_text       the set of keywords user_text.lower() contains, of    *)
(*                   "fenghuang" (U+51E4 U+51F0), "phoenix",               *)
(*                   "zhongyao_xiangmu" (important project), "baogao"      *)
(*                   (report), "xiangmu" (project)                         *)
(*   episodes        one entry per MemoryEpisode: the set of keywords its  *)
(*                   event.lower() contains, of "interaction", "mubiao"    *)
(*                   (goal), "jihua" (plan), "xiangmu" (project)           *)
(*   "None" stands for an absent optional field                            *)

None == "None"

Snapshot(text, emotion, sentiment, flags, tod, episodes, personality) ==
    [user_text |-> text, speech_emotion |-> emotion, text_sentiment |-> sentiment,
     context_flags |-> flags, time_of_day |-> tod, episodes |-> episodes,
     personality |-> personality]

-----------------------------------------------------------------------------
(* Context discretizer: src/emate/micro/state_discretizer.py *)

\* variant: an absent value is handed on as it is
safe_passes_absent(val, fallback) == val

safe(val, fallback) == IF val = None \/ val = "" THEN fallback ELSE val

\* variant: the interruption test comes before the emotion tests
assess_work_rhythm_fragmented_first(p, flags) ==
    IF "deep_work_mode" \in flags THEN "deep_focus"
    ELSE IF "task_switching" \in flags \/ "interruption_high" \in flags THEN "fragmented"
    ELSE IF p.speech_emotion = "stress" /\ "deadline_near" \in flags THEN "intense_work"
    ELSE IF p.speech_emotion = "fatigue" THEN "energy_low"
    ELSE IF p.speech_emotion = "calm" /\ "task_switching" \notin flags THEN "steady_flow"
    ELSE "normal"

assess_work_rhythm(p, flags) ==
    IF "deep_work_mode" \in flags THEN "deep_focus"
    ELSE IF p.speech_emotion = "stress" /\ "deadline_near" \in flags THEN "intense_work"
    ELSE IF p.speech_emotion = "fatigue" THEN "energy_low"
    ELSE IF p.speech_emotion = "calm" /\ "task_switching" \notin flags THEN "steady_flow"
    ELSE IF "task_switching" \in flags \/ "interruption_high" \in flags THEN "fragmented"
    ELSE "normal"

\* variant: the stress test comes before the sitting tests
assess_health_status_stress_first(p, flags) ==
    IF p.speech_emotion \in {"stress", "angry"} /\ "high_workload" \in flags
    THEN "stress_high"
    ELSE IF "sitting_over_2h" \in flags THEN "sitting_long"
    ELSE IF "sitting_over_1h" \in flags THEN "sitting_moderate"
    ELSE IF p.speech_emotion = "fatigue" THEN "energy_depleted"
    ELSE IF "environment_uncomfortable" \in flags THEN "env_poor"
    ELSE "healthy"

assess_health_status(p, flags) ==
    IF "sitting_over_2h" \in flags THEN "sitting_long"
    ELSE IF "sitting_over_1h" \in flags THEN "sitting_moderate"
    ELSE IF p.speech_emotion \in {"stress", "angry"} /\ "high_workload" \in flags
         THEN "stress_high"
    ELSE IF p.speech_emotion = "fatigue" THEN "energy_depleted"
    ELSE IF "environment_uncomfortable" \in flags THEN "env_poor"
    ELSE "healthy"

CountEpisodes(eps, words) ==
    Cardinality({ i \in 1..Len(eps) : eps[i] \cap words # {} })

assess_emotional_state(p) ==
    IF p.speech_emotion = "stress" /\ p.text_sentiment = "negative" THEN "overwhelmed"
    ELSE IF p.speech_emotion = "sad" THEN "need_comfort"
    ELSE IF p.speech_emotion = "happy" THEN "positive_mood"
    ELSE IF p.speech_emotion = "fatigue" THEN "emotionally_drained"
    ELSE LET recent_interactions == CountEpisodes(p.episodes, {"interaction"}) IN
         IF recent_interactions > 5 THEN "connected"
         ELSE IF recent_interactions = 0 THEN "distant"
         ELSE "neutral"

assess_personal_context(p, flags) ==
    IF p.user_text \cap {"fenghuang", "phoenix", "zhongyao_xiangmu"} # {}
    THEN IF "deadline_near" \in flags THEN "important_behind" ELSE "important_progress"
    ELSE LET goal_related == CountEpisodes(p.episodes, {"mubiao", "jihua", "xiangmu"}) IN
         IF goal_related > 3 THEN "goal_active"
         ELSE IF goal_related = 0 THEN "goal_unclear"
         ELSE "routine"

\* variant: the interruption and quiet-space tests come before the time-specific ones
assess_environmental_context_interruption_first(p, flags) ==
    LET tod == safe(p.time_of_day, "unknown") IN
    IF "interruption_high" \in flags THEN tod \o "_chaotic"
    ELSE IF "quiet_space" \in flags THEN tod \o "_peaceful"
    ELSE IF tod = "morning" /\ "energy_high" \in flags THEN "morning_fresh"
    ELSE IF tod = "afternoon" /\ "post_lunch_dip" \in flags THEN "afternoon_low"
    ELSE IF tod = "evening" /\ "overtime" \in flags THEN "evening_overtime"
    ELSE tod \o "_normal"

assess_environmental_context(p, flags) ==
    LET tod == safe(p.time_of_day, "unknown") IN
    IF tod = "morning" /\ "energy_high" \in flags THEN "morning_fresh"
    ELSE IF tod = "afternoon" /\ "post_lunch_dip" \in flags THEN "afternoon_low"
    ELSE IF tod = "evening" /\ "overtime" \in flags THEN "evening_overtime"
    ELSE IF "interruption_high" \in flags THEN tod \o "_chaotic"
    ELSE IF "quiet_space" \in flags THEN tod \o "_peaceful"
    ELSE tod \o "_normal"

\* the five segments, in order
state_parts(p) ==
    << "RHYTHM_" \o assess_work_rhythm(p, p.context_flags),
       "HEALTH_" \o assess_health_status(p, p.context_flags),
       "EMOTION_" \o assess_emotional_state(p),
       "GOAL_" \o assess_personal_context(p, p.context_flags),
       "ENV_" \o assess_environmental_context(p, p.context_flags) >>

\* "|".join(parts)
discretize_state(p) ==
    LET parts == state_parts(p) IN
    parts[1] \o "|" \o parts[2] \o "|" \o parts[3] \o "|" \o parts[4] \o "|" \o parts[5]

-----------------------------------------------------------------------------
(* Personality rule engine: src/emate/core/graph.py *)

\* variant: the deadline rule is tried before the distraction rule
heuristic_standard_assistant_deadline_first(p) ==
    LET flags == p.context_flags IN
    IF "deep_work_mode" \in flags \/ ("important_task" \in flags /\ "quiet_space" \in flags)
    THEN A_DEEP_WORK_MODE
    ELSE IF "deadline_near" \in flags
    THEN A_SET_REMINDER
    ELSE IF "interruption_high" \in flags \/ "noise_distraction" \in flags
    THEN A_DISTRACTION_SHIELD
    ELSE IF "sitting_over_2h" \in flags \/ p.speech_emotion = "fatigue"
    THEN A_MOVEMENT_REMINDER
    ELSE IF "progress_review" \in flags \/ "goal_review" \in flags
    THEN A_GOAL_PROGRESS
    ELSE IF p.speech_emotion = "calm" /\ "task_switching" \notin flags
    THEN A_FOCUS_FLOW
    ELSE None

\* variant: the work-protection action is the default
heuristic_standard_assistant_with_default(p) ==
    LET flags == p.context_flags IN
    IF "deep_work_mode" \in flags \/ ("important_task" \in flags /\ "quiet_space" \in flags)
    THEN A_DEEP_WORK_MODE
    ELSE IF "interruption_high" \in flags \/ "noise_distraction" \in flags
    THEN A_DISTRACTION_SHIELD
    ELSE IF "sitting_over_2h" \in flags \/ p.speech_emotion = "fatigue"
    THEN A_MOVEMENT_REMINDER
    ELSE IF "progress_review" \in flags \/ "goal_review" \in flags
    THEN A_GOAL_PROGRESS
    ELSE IF p.speech_emotion = "calm" /\ "task_switching" \notin flags
    THEN A_FOCUS_FLOW
    ELSE IF "deadline_near" \in flags
    THEN A_SET_REMINDER
    ELSE A_DEEP_WORK_MODE

heuristic_standard_assistant(p) ==
    LET flags == p.context_flags IN
    IF "deep_work_mode" \in flags \/ ("important_task" \in flags /\ "quiet_space" \in flags)
    THEN A_DEEP_WORK_MODE
    ELSE IF "interruption_high" \in flags \/ "noise_distraction" \in flags
    THEN A_DISTRACTION_SHIELD
    ELSE IF "sitting_over_2h" \in flags \/ p.speech_emotion = "fatigue"
    THEN A_MOVEMENT_REMINDER
    ELSE IF "progress_review" \in flags \/ "goal_review" \in flags
    THEN A_GOAL_PROGRESS
    ELSE IF p.speech_emotion = "calm" /\ "task_switching" \notin flags
    THEN A_FOCUS_FLOW
    ELSE IF "deadline_near" \in flags
    THEN A_SET_REMINDER
    ELSE None

heuristic_cute_cat(p) ==
    LET flags == p.context_flags IN
    IF p.speech_emotion \in {"stress", "sad"} \/ "emotional_distress" \in flags
    THEN A_EMOTIONAL_SUPPORT
    ELSE IF p.speech_emotion = "happy" \/ "achievement_unlocked" \in flags
    THEN A_CELEBRATION
    ELSE IF p.speech_emotion = "fatigue" \/ "sitting_over_2h" \in flags
    THEN IF "eye_strain" \in flags THEN A_BREATHING_GUIDE ELSE A_MOVEMENT_REMINDER
    ELSE IF p.speech_emotion = "calm"
    THEN A_GENTLE_PRESENCE
    ELSE A_SET_REMINDER

heuristic_cold_boss(p) ==
    LET flags == p.context_flags IN
    IF "interruption_high" \in flags \/ "noise_distraction" \in flags
    THEN A_DISTRACTION_SHIELD
    ELSE IF "environment_uncomfortable" \in flags
    THEN A_SPACE_OPTIMIZATION
    ELSE IF "important_task" \in flags \/ "deadline_near" \in flags
    THEN A_DEEP_WORK_MODE
    ELSE IF p.speech_emotion = "fatigue"
    THEN A_ENERGY_BOOST
    ELSE IF "progress_review" \in flags
    THEN A_GOAL_PROGRESS
    ELSE A_DEEP_WORK_MODE

heuristic_warm_sister(p) ==
    LET flags == p.context_flags IN
    IF "sitting_over_2h" \in flags \/ p.speech_emotion = "fatigue"
    THEN A_MOVEMENT_REMINDER
    ELSE IF p.speech_emotion \in {"stress", "sad"} \/ "emotional_distress" \in flags
    THEN A_EMOTIONAL_SUPPORT
    ELSE IF "eye_strain" \in flags \/ p.speech_emotion = "stress"
    THEN A_BREATHING_GUIDE
    ELSE IF "environment_uncomfortable" \in flags
    THEN A_ENVIRONMENT_ADJUST
    ELSE IF "improvement_seeking" \in flags
    THEN A_HABIT_NUDGE
    ELSE A_SET_REMINDER

\* variant: no default action
heuristic_anime_wizard_without_default(p) ==
    LET flags == p.context_flags IN
    IF "progress_review" \in flags \/ "self_reflection" \in flags
    THEN A_GOAL_PROGRESS
    ELSE IF "improvement_seeking" \in flags \/ p.speech_emotion = "calm"
    THEN A_PERSONALIZED_INSIGHT
    ELSE IF "habit_formation" \in flags
    THEN A_HABIT_NUDGE
    ELSE IF "environment_uncomfortable" \in flags
    THEN A_AMBIENT_COMPANION
    ELSE IF p.user_text \cap {"fenghuang", "phoenix"} # {}
    THEN A_SET_REMINDER
    ELSE None

heuristic_anime_wizard(p) ==
    LET flags == p.context_flags IN
    IF "progress_review" \in flags \/ "self_reflection" \in flags
    THEN A_GOAL_PROGRESS
    ELSE IF "improvement_seeking" \in flags \/ p.speech_emotion = "calm"
    THEN A_PERSONALIZED_INSIGHT
    ELSE IF "habit_formation" \in flags
    THEN A_HABIT_NUDGE
    ELSE IF "environment_uncomfortable" \in flags
    THEN A_AMBIENT_COMPANION
    ELSE IF p.user_text \cap {"fenghuang", "phoenix"} # {}
    THEN A_SET_REMINDER
    ELSE A_PERSONALIZED_INSIGHT

heuristic_sarcastic_fighter(p) ==
    LET flags == p.context_flags IN
    IF p.speech_emotion = "happy" \/ "achievement_unlocked" \in flags
    THEN A_CELEBRATION
    ELSE IF p.speech_emotion = "fatigue"
    THEN A_ENERGY_BOOST
    ELSE IF "interruption_high" \in flags \/ "noise_distraction" \in flags
    THEN A_DISTRACTION_SHIELD
    ELSE IF "progress_review" \in flags
    THEN A_GOAL_PROGRESS
    ELSE IF "important_task" \in flags \/ p.speech_emotion \in {"stress", "angry"}
    THEN A_DEEP_WORK_MODE
    ELSE A_DEEP_WORK_MODE

\* _heuristic_action: None when no rule matched
heuristic_action(p) ==
    IF p.personality = "StandardAssistant" THEN heuristic_standard_assistant(p)
    ELSE IF p.personality = "CuteCat" THEN heuristic_cute_cat(p)
    ELSE IF p.personality = "ColdBoss" THEN heuristic_cold_boss(p)
    ELSE IF p.personality = "WarmSister" THEN heuristic_warm_sister(p)
    ELSE IF p.personality = "AnimeWizard" THEN heuristic_anime_wizard(p)
    ELSE IF p.personality = "SarcasticFighter" THEN heuristic_sarcastic_fighter(p)
    ELSE None

\* _guess_task
guess_task(p) ==
    IF p.user_text \cap {"fenghuang", "phoenix"} # {} THEN "task_phoenix_draft"
    ELSE IF "baogao" \in p.user_text THEN "task_work_report"
    ELSE IF "xiangmu" \in p.user_text THEN "task_project"
    ELSE None

-----------------------------------------------------------------------------
(* Action catalog & templater: src/emate/micro/action_map.py               *)
(* An OutputCommand: execution_output (screen_animation, light_effect),    *)
(* action (type, parameters) and tts_output.text_to_speak.                 *)
(*                                                                         *)
(* A spoken text is the sequence of its tokens.  A token is one of the     *)
(* substrings the personality filters search for, replace or append        *)
(*   "tilde" ~   "miao" U+55B5   "nya"                                     *)
(*   "qing" U+8BF7   "mafan" U+9EBB U+70E6   "keyidehua"   "ruguokeyi"     *)
(*   "juhao" U+3002   "dot" .                                              *)
(*   "lijie" "mingbai" "ganshou" "wenrou" "peiban"   (understanding words) *)
(*   "zhuanzhu" (focus)   "gongzuo" (work)                                 *)
(*   "taibangle" "chaoji" "wanmei"   (emotional words)                     *)
(* or "_", a non-empty run of other characters.  The empty string is the   *)
(* empty sequence; NoText is an absent text_to_speak.  A duration is << >> *)
(* when absent and <<minutes>> when set.                                   *)

NoText == <<None>>

\* variant: the light effect is left unset
Output_without_light(type, screen, light, duration, task, text) ==
    [type |-> type, screen |-> screen, light |-> None,
     duration |-> duration, related_task |-> task, text |-> text]

Output(type, screen, light, duration, task, text) ==
    [type |-> type, screen |-> screen, light |-> light,
     duration |-> duration, related_task |-> task, text |-> text]

\* no OutputCommand: the call returned nothing or raised
NoOutput == Output(None, None, None, << >>, None, NoText)

map_action_to_output(action_id, related_task, personality) ==
    LET \* the name of the task as it appears in a message
        task_name(task) ==
            IF task = "task_work_report" THEN <<"gongzuo", "_">> ELSE <<"_">>
        \* _get_deep_work_message (action_map.py:252)
        get_deep_work_message ==
            LET messages ==
                    [ StandardAssistant |-> <<"_", "gongzuo", "_", "juhao">>,
                      CuteCat |-> <<"_", "zhuanzhu", "_", "zhuanzhu", "_", "tilde", "_", "miao">>,
                      ColdBoss |-> <<"_", "gongzuo", "_", "juhao", "_", "juhao", "zhuanzhu", "juhao">>,
                      WarmSister |-> <<"_", "zhuanzhu", "_", "gongzuo", "_", "juhao">>,
                      AnimeWizard |-> <<"_", "zhuanzhu", "_", "juhao">>,
                      SarcasticFighter |-> <<"_", "gongzuo", "_", "juhao">> ]
            IN  IF personality \in DOMAIN messages THEN messages[personality]
                ELSE messages["StandardAssistant"]
        \* _get_focus_flow_message (action_map.py:264)
        get_focus_flow_message ==
            LET messages ==
                    [ StandardAssistant |-> <<"_", "zhuanzhu", "_", "gongzuo", "juhao">>,
                      CuteCat |-> <<"_", "zhuanzhu", "_", "tilde", "_", "miao">>,
                      ColdBoss |-> <<"_", "juhao", "_", "juhao", "_", "juhao">>,
                      WarmSister |-> <<"_", "juhao">>,
                      AnimeWizard |-> <<"_", "ganshou", "_", "dot", "dot", "dot", "_", "zhuanzhu", "_", "juhao">>,
                      SarcasticFighter |-> <<"_", "juhao", "_", "juhao">> ]
            IN  IF personality \in DOMAIN messages THEN messages[personality]
                ELSE messages["StandardAssistant"]
        \* _get_energy_boost_message (action_map.py:276)
        get_energy_boost_message ==
            LET messages ==
                    [ StandardAssistant |-> <<"_", "juhao">>,
                      CuteCat |-> <<"_", "tilde", "_", "miao">>,
                      ColdBoss |-> <<"_", "juhao", "_", "juhao", "_", "juhao">>,
                      WarmSister |-> <<"_">>,
                      AnimeWizard |-> <<"_", "dot", "dot", "dot", "_", "juhao">>,
                      SarcasticFighter |-> <<"_", "juhao">> ]
            IN  IF personality \in DOMAIN messages THEN messages[personality]
                ELSE messages["StandardAssistant"]
        \* _get_movement_message (action_map.py:290)
        get_movement_message ==
            LET messages ==
                    [ StandardAssistant |-> <<"_", "juhao">>,
                      CuteCat |-> <<"_", "tilde", "_", "miao">>,
                      ColdBoss |-> <<"_", "juhao", "_", "juhao", "_", "juhao">>,
                      WarmSister |-> <<"_", "juhao">>,
                      AnimeWizard |-> <<"_", "dot", "dot", "dot", "_", "juhao">>,
                      SarcasticFighter |-> <<"_", "juhao">> ]
            IN  IF personality \in DOMAIN messages THEN messages[personality]
                ELSE messages["StandardAssistant"]
        \* _get_breathing_message (action_map.py:302)
        get_breathing_message ==
            LET messages ==
                    [ StandardAssistant |-> <<"_", "juhao">>,
                      CuteCat |-> <<"_", "tilde", "_", "tilde", "_", "miao">>,
                      ColdBoss |-> <<"_", "juhao", "_", "juhao", "_", "juhao">>,
                      WarmSister |-> <<"_", "juhao">>,
                      AnimeWizard |-> <<"_", "dot", "dot", "dot", "ganshou", "_", "juhao">>,
                      SarcasticFighter |-> <<"_", "juhao">> ]
            IN  IF personality \in DOMAIN messages THEN messages[personality]
                ELSE messages["StandardAssistant"]
        \* _get_environment_message (action_map.py:314)
        get_environment_message ==
            LET messages ==
                    [ StandardAssistant |-> <<"_", "gongzuo", "_", "juhao">>,
                      CuteCat |-> <<"_", "gongzuo", "tilde", "_", "miao">>,
                      ColdBoss |-> <<"_", "juhao", "_", "juhao", "_", "juhao">>,
                      WarmSister |-> <<"_", "juhao">>,
                      AnimeWizard |-> <<"_", "juhao">>,
                      SarcasticFighter |-> <<"_", "juhao">> ]
            IN  IF personality \in DOMAIN messages THEN messages[personality]
                ELSE messages["StandardAssistant"]
        \* _get_emotional_support_message (action_map.py:328)
        get_emotional_support_message ==
            LET messages ==
                    [ StandardAssistant |-> <<"_", "lijie", "_", "ganshou", "_", "peiban", "_", "juhao">>,
                      CuteCat |-> <<"_", "tilde", "_", "miao">>,
                      ColdBoss |-> <<"_", "juhao", "_", "juhao", "_", "juhao">>,
                      WarmSister |-> <<"_", "ganshou", "_", "juhao">>,
                      AnimeWizard |-> <<"_", "dot", "dot", "dot", "_", "lijie", "juhao">>,
                      SarcasticFighter |-> <<"_", "dot", "dot", "dot", "_", "juhao">> ]
            IN  IF personality \in DOMAIN messages THEN messages[personality]
                ELSE messages["StandardAssistant"]
        \* _get_celebration_message (action_map.py:340)
        get_celebration_message ==
            LET messages ==
                    [ StandardAssistant |-> <<"_", "juhao">>,
                      CuteCat |-> <<"_", "taibangle", "_", "tilde", "_", "miao", "miao", "miao", "_">>,
                      ColdBoss |-> <<"_", "juhao", "_", "juhao">>,
                      WarmSister |-> <<"_", "juhao">>,
                      AnimeWizard |-> <<"_", "dot", "dot", "dot", "_", "juhao">>,
                      SarcasticFighter |-> <<"_", "juhao">> ]
            IN  IF personality \in DOMAIN messages THEN messages[personality]
                ELSE messages["StandardAssistant"]
        \* _get_gentle_presence_message (action_map.py:352)
        get_gentle_presence_message ==
            LET messages ==
                    [ StandardAssistant |-> << >>,
                      CuteCat |-> << >>,
                      ColdBoss |-> << >>,
                      WarmSister |-> << >>,
                      AnimeWizard |-> << >>,
                      SarcasticFighter |-> << >> ]
            IN  IF personality \in DOMAIN messages THEN messages[personality]
                ELSE << >>
        \* _get_goal_progress_message (action_map.py:366)
        task_context ==
            IF related_task = None THEN << >>
            ELSE <<"_">> \o task_name(related_task) \o <<"_">>
        get_goal_progress_message ==
            LET messages ==
                    [ StandardAssistant |-> task_context \o <<"_", "juhao">>,
                      CuteCat |-> task_context \o <<"_", "tilde", "_", "miao">>,
                      ColdBoss |-> task_context \o <<"_", "juhao", "_", "juhao">>,
                      WarmSister |-> task_context \o <<"_", "juhao">>,
                      AnimeWizard |-> task_context \o <<"_", "juhao">>,
                      SarcasticFighter |-> task_context \o <<"_", "dot", "dot", "dot", "_", "juhao">> ]
            IN  IF personality \in DOMAIN messages THEN messages[personality]
                ELSE messages["StandardAssistant"]
        \* _get_habit_nudge_message (action_map.py:379)
        get_habit_nudge_message ==
            LET messages ==
                    [ StandardAssistant |-> <<"_", "gongzuo", "_", "juhao">>,
                      CuteCat |-> <<"_", "tilde", "_", "miao">>,
                      ColdBoss |-> <<"_", "juhao", "_", "juhao", "_", "juhao">>,
                      WarmSister |-> <<"_", "juhao">>,
                      AnimeWizard |-> <<"_", "dot", "dot", "dot", "_", "juhao">>,
                      SarcasticFighter |-> <<"_", "dot", "dot", "dot", "_">> ]
            IN  IF personality \in DOMAIN messages THEN messages[personality]
                ELSE messages["StandardAssistant"]
        \* _get_personalized_insight_message (action_map.py:391)
        get_personalized_insight_message ==
            LET messages ==
                    [ StandardAssistant |-> <<"_", "gongzuo", "_", "juhao">>,
                      CuteCat |-> <<"_", "tilde", "_", "miao">>,
                      ColdBoss |-> <<"_", "juhao", "_", "juhao">>,
                      WarmSister |-> <<"_", "juhao">>,
                      AnimeWizard |-> <<"_", "juhao">>,
                      SarcasticFighter |-> <<"_", "dot", "dot", "dot", "_", "gongzuo", "_", "juhao">> ]
            IN  IF personality \in DOMAIN messages THEN messages[personality]
                ELSE messages["StandardAssistant"]
        \* _get_space_optimization_message (action_map.py:405)
        get_space_optimization_message ==
            LET messages ==
                    [ StandardAssistant |-> <<"_", "gongzuo", "_", "juhao">>,
                      CuteCat |-> <<"_", "gongzuo", "_", "tilde", "_", "miao">>,
                      ColdBoss |-> <<"_", "juhao", "_", "juhao", "_", "juhao">>,
                      WarmSister |-> <<"_", "gongzuo", "_", "juhao">>,
                      AnimeWizard |-> <<"_", "juhao">>,
                      SarcasticFighter |-> <<"_", "gongzuo", "_", "dot", "dot", "dot", "_", "juhao">> ]
            IN  IF personality \in DOMAIN messages THEN messages[personality]
                ELSE messages["StandardAssistant"]
        \* _get_distraction_shield_message (action_map.py:417)
        get_distraction_shield_message ==
            LET messages ==
                    [ StandardAssistant |-> <<"_", "zhuanzhu", "_", "juhao">>,
                      CuteCat |-> <<"_", "tilde", "_", "miao">>,
                      ColdBoss |-> <<"_", "juhao", "zhuanzhu", "_", "juhao">>,
                      WarmSister |-> <<"_", "gongzuo", "_", "juhao">>,
                      AnimeWizard |-> <<"_", "zhuanzhu", "_", "juhao">>,
                      SarcasticFighter |-> <<"_", "juhao">> ]
            IN  IF personality \in DOMAIN messages THEN messages[personality]
                ELSE messages["StandardAssistant"]
        \* _get_ambient_companion_message (action_map.py:429)
        get_ambient_companion_message ==
            LET messages ==
                    [ StandardAssistant |-> <<"_", "gongzuo", "_", "juhao">>,
                      CuteCat |-> <<"_", "tilde", "_", "gongzuo", "_", "miao">>,
                      ColdBoss |-> <<"_", "juhao", "_", "gongzuo", "_", "juhao">>,
                      WarmSister |-> <<"_", "gongzuo", "_", "juhao">>,
                      AnimeWizard |-> <<"_", "juhao">>,
                      SarcasticFighter |-> <<"_", "dot", "dot", "dot", "_", "juhao">> ]
            IN  IF personality \in DOMAIN messages THEN messages[personality]
                ELSE messages["StandardAssistant"]
        \* _get_reminder_message (action_map.py:443)
        get_reminder_message ==
            LET messages ==
                    [ StandardAssistant |-> <<"_", "juhao">>,
                      CuteCat |-> <<"_", "tilde", "_">>,
                      ColdBoss |-> <<"_", "juhao", "_", "juhao">>,
                      WarmSister |-> <<"_", "lijie", "_", "juhao", "_", "wenrou", "_", "juhao">>,
                      AnimeWizard |-> <<"_", "dot", "dot", "dot", "_", "juhao">>,
                      SarcasticFighter |-> <<"_", "juhao">> ]
            IN  IF personality \in DOMAIN messages THEN messages[personality]
                ELSE messages["StandardAssistant"]
    IN
        IF action_id = A_DEEP_WORK_MODE
        THEN Output("deep_work_protection", "deep_focus_shield", "focus_deep_blue", << >>, related_task,
                get_deep_work_message)
        ELSE IF action_id = A_FOCUS_FLOW
        THEN Output("focus_flow_guidance", "flow_waves", "flow_gradient", << >>, None,
                get_focus_flow_message)
        ELSE IF action_id = A_ENERGY_BOOST
        THEN Output("energy_boost_suggestion", "energy_spark", "energizing_orange", << >>, None,
                get_energy_boost_message)
        ELSE IF action_id = A_MOVEMENT_REMINDER
        THEN Output("movement_reminder", "gentle_stretch", "health_green_pulse", << >>, None,
                get_movement_message)
        ELSE IF action_id = A_BREATHING_GUIDE
        THEN Output("breathing_relaxation", "breathing_guide", "calm_breathing", << >>, None,
                get_breathing_message)
        ELSE IF action_id = A_ENVIRONMENT_ADJUST
        THEN Output("environment_optimization", "environment_adjust", "comfort_warm", << >>, None,
                get_environment_message)
        ELSE IF action_id = A_EMOTIONAL_SUPPORT
        THEN Output("emotional_support", "empathetic_presence", "warm_embrace", << >>, None,
                get_emotional_support_message)
        ELSE IF action_id = A_CELEBRATION
        THEN Output("achievement_celebration", "celebration_sparkle", "joy_rainbow", << >>, None,
                get_celebration_message)
        ELSE IF action_id = A_GENTLE_PRESENCE
        THEN Output("quiet_companionship", "gentle_pulse", "soft_presence", << >>, None,
                get_gentle_presence_message)
        ELSE IF action_id = A_GOAL_PROGRESS
        THEN Output("goal_progress_review", "progress_chart", "progress_blue", << >>, related_task,
                get_goal_progress_message)
        ELSE IF action_id = A_HABIT_NUDGE
        THEN Output("habit_formation_nudge", "habit_formation", "habit_purple", << >>, None,
                get_habit_nudge_message)
        ELSE IF action_id = A_PERSONALIZED_INSIGHT
        THEN Output("personalized_insight", "wisdom_sharing", "insight_gold", << >>, None,
                get_personalized_insight_message)
        ELSE IF action_id = A_SPACE_OPTIMIZATION
        THEN Output("workspace_optimization", "space_harmony", "optimization_white", << >>, None,
                get_space_optimization_message)
        ELSE IF action_id = A_DISTRACTION_SHIELD
        THEN Output("distraction_protection", "shield_protection", "protection_cyan", << >>, None,
                get_distraction_shield_message)
        ELSE IF action_id = A_AMBIENT_COMPANION
        THEN Output("ambient_atmosphere", "ambient_waves", "ambient_mood", << >>, None,
                get_ambient_companion_message)
        ELSE IF action_id = A_SET_REMINDER
        THEN Output("set_reminder", "empathetic_nod", "warm_yellow_glow", << >>, related_task,
                get_reminder_message)
        ELSE Output("silent_companionship", "gentle_breathing", "soft_ambient", << >>, None,
                << >>)

-----------------------------------------------------------------------------
(* Personality filter: src/emate/core/persona_guard.py *)

\* `if text:` is false for an absent and for an empty text
Truthy(text) == text # NoText /\ text # << >>

\* any(word in text for word in words)
Contains(text, words) == \E i \in DOMAIN text : text[i] \in words

filter_standard_assistant(out) ==
    LET silenced == IF out.type = "none" THEN [out EXCEPT !.text = << >>] ELSE out
        emotional == {"taibangle", "chaoji", "wanmei"}
    IN  IF Truthy(silenced.text)
        THEN [silenced EXCEPT !.text =
                 [i \in DOMAIN silenced.text |->
                     IF silenced.text[i] \in emotional THEN "_" ELSE silenced.text[i]]]
        ELSE silenced

\* variant: no suffix is appended
filter_cute_cat_plain(out) ==
    IF out.screen = "focused" THEN [out EXCEPT !.screen = "breathing_calm"] ELSE out

filter_cute_cat(out) ==
    LET cute == IF Truthy(out.text) /\ ~Contains(out.text, {"tilde", "miao", "nya"})
                THEN [out EXCEPT !.text = out.text \o <<"_", "tilde">>]
                ELSE out
    IN  IF cute.screen = "focused" THEN [cute EXCEPT !.screen = "breathing_calm"] ELSE cute

\* variant: an energy-boost suggestion counts as a break
filter_cold_boss_no_boost(out) ==
    LET direct == SelectSeq(out.text,
                            LAMBDA w : w \notin {"qing", "mafan", "keyidehua", "ruguokeyi"})
        ended == IF direct # << >> /\ direct[Len(direct)] \in {"juhao", "dot"}
                 THEN direct
                 ELSE direct \o <<"juhao">>
        firm == IF Truthy(out.text) THEN [out EXCEPT !.text = ended] ELSE out
    IN  IF firm.type \in {"suggest_break", "energy_boost_suggestion"}
        THEN [firm EXCEPT !.type = "enter_focus_mode", !.duration = <<45>>]
        ELSE firm

filter_cold_boss(out) ==
    LET direct == SelectSeq(out.text,
                            LAMBDA w : w \notin {"qing", "mafan", "keyidehua", "ruguokeyi"})
        ended == IF direct # << >> /\ direct[Len(direct)] \in {"juhao", "dot"}
                 THEN direct
                 ELSE direct \o <<"juhao">>
        firm == IF Truthy(out.text) THEN [out EXCEPT !.text = ended] ELSE out
    IN  IF firm.type = "suggest_break"
        THEN [firm EXCEPT !.type = "enter_focus_mode", !.duration = <<45>>]
        ELSE firm

filter_warm_sister(out) ==
    LET understanding_words == {"lijie", "mingbai", "ganshou", "wenrou", "peiban"}
        warm == IF Truthy(out.text) /\ ~Contains(out.text, understanding_words)
                THEN [out EXCEPT !.text = <<"_", "lijie", "juhao">> \o out.text]
                ELSE out
    IN  IF warm.screen = "focused" THEN [warm EXCEPT !.screen = "empathetic_nod"] ELSE warm

\* variant: the framing is added to an empty text too
filter_anime_wizard_always_frames(out) ==
    [out EXCEPT !.text =
        <<"_">> \o (IF Truthy(out.text) THEN out.text ELSE << >>)
                \o <<"_", "dot", "dot", "dot", "_", "juhao">>]

filter_anime_wizard(out) ==
    IF Truthy(out.text)
    THEN [out EXCEPT !.text =
             <<"_">> \o out.text \o <<"_", "dot", "dot", "dot", "_", "juhao">>]
    ELSE out

\* variant: the coercion uses ColdBoss's duration
filter_sarcastic_fighter_duration_45(out) ==
    LET sharp == IF Truthy(out.text) /\ Contains(out.text, {"zhuanzhu", "gongzuo"})
                 THEN [out EXCEPT !.text =
                          <<"_", "gongzuo", "_">> \o out.text \o <<"_", "juhao">>]
                 ELSE out
    IN  IF sharp.type = "suggest_break"
        THEN [sharp EXCEPT !.type = "enter_focus_mode", !.duration = <<45>>]
        ELSE sharp

filter_sarcastic_fighter(out) ==
    LET sharp == IF Truthy(out.text) /\ Contains(out.text, {"zhuanzhu", "gongzuo"})
                 THEN [out EXCEPT !.text =
                          <<"_", "gongzuo", "_">> \o out.text \o <<"_", "juhao">>]
                 ELSE out
    IN  IF sharp.type = "suggest_break"
        THEN [sharp EXCEPT !.type = "enter_focus_mode", !.duration = <<90>>]
        ELSE sharp

\* persona_loader.get_persona(personality) is None exactly for a key outside
\* the six configured ones, whether persona.md was read or the defaults loaded
apply_persona_filter(out, personality) ==
    IF personality = "StandardAssistant" THEN filter_standard_assistant(out)
    ELSE IF personality = "CuteCat" THEN filter_cute_cat(out)
    ELSE IF personality = "ColdBoss" THEN filter_cold_boss(out)
    ELSE IF personality = "WarmSister" THEN filter_warm_sister(out)
    ELSE IF personality = "AnimeWizard" THEN filter_anime_wizard(out)
    ELSE IF personality = "SarcasticFighter" THEN filter_sarcastic_fighter(out)
    ELSE out

\* run_once, steps 3 and 4: template, then filter
render(action_id, p) ==
    apply_persona_filter(map_action_to_output(action_id, guess_task(p), p.personality),
                         p.personality)

-----------------------------------------------------------------------------
(* Snapshots fed to run_once *)

Personalities ==
    {"StandardAssistant", "CuteCat", "ColdBoss", "WarmSister", "AnimeWizard",
     "SarcasticFighter"}

\* the learning test's scenario: src/emate/app/rl_scenario_tests.py:191-205
X_TEST ==
    Snapshot({"fenghuang", "xiangmu"}, "stress", "negative",
             {"interruption_high", "important_task", "deadline_near"}, "morning",
             << >>, "StandardAssistant")

\* emotion=stress, flags={deadline_near, interruption_high}
X_STRESS(personality) ==
    Snapshot({}, "stress", None, {"deadline_near", "interruption_high"}, None, << >>,
             personality)

\* nothing perceived: every optional field absent
X_BLANK(personality) == Snapshot({}, None, None, {}, None, << >>, personality)

\* emotion=fatigue, flags={sitting_over_2h}
X_TIRED(personality) ==
    Snapshot({}, "fatigue", None, {"sitting_over_2h"}, None, << >>, personality)

Snapshots ==
    { X_TEST, X_STRESS("StandardAssistant"), X_BLANK("StandardAssistant"),
      X_TIRED("CuteCat") }

\* documents that were not written by this program with this catalog
ListDoc == JsonDoc(OtherTable)                                        \* []
ScalarRowDoc == JsonDoc(DictTable([k \in {K_TEST} |-> OtherRow]))     \* {K_TEST: 5}
EmptyRowDoc == JsonDoc(DictTable([k \in {K_TEST} |-> DictRow(NoItems)]))   \* {K_TEST: {}}
PartialRowDoc ==                                        \* {K_TEST: {"A_FOCUS_FLOW": 0.5}}
    JsonDoc(DictTable([k \in {K_TEST} |-> DictRow(<< <<A_FOCUS_FLOW, Tenths(5)>> >>)]))

LoadStarts ==
    { Start(d, DefaultConfig) :
        d \in { MissingDoc, UnreadableDoc, CorruptDoc, JsonDoc(EmptyTable),
                JsonDoc(SavedTable), ListDoc, ScalarRowDoc, EmptyRowDoc, PartialRowDoc } }

-----------------------------------------------------------------------------
(* The last call *)

\* op      "init" | "select" | "update" | "run_once" | "reward"
\* s, a, r, ns  the arguments (run_once: the discretized key and the chosen action id)
\* result  what select returned
\* branch  "explore" | "greedy" for a select, "rule" when the rule engine resolved
\* save    how the _save call of an update ended
\* x       the snapshot given to run_once
\* out     the OutputCommand run_once returned
NoSnapshot == Snapshot({}, None, None, {}, None, << >>, None)

CallRec(op, s, a, r, ns, result, raised, branch, outcome, out) ==
    [op |-> op, s |-> s, a |-> a, r |-> r, ns |-> ns, result |-> result,
     raised |-> raised, branch |-> branch, save |-> outcome, out |-> out,
     x |-> NoSnapshot]

RunRec(x, a, result, raised, branch, out) ==
    [CallRec("run_once", discretize_state(x), a, 0, NoKey, result, raised, branch,
             "none", out) EXCEPT !.x = x]

InitCall == CallRec("init", NoKey, NoResult, 0, NoKey, NoResult, FALSE, "none", "none", NoOutput)

-----------------------------------------------------------------------------
(* Actions *)

\* no call is in progress
NoThreads == << >>

\* QLearningNode.__init__
construct(st) ==
    /\ doc = st.doc
    /\ cfg = st.cfg
    /\ q_table = load(st.doc)
    /\ epsilon = st.cfg.epsilon
    /\ call = InitCall
    /\ updates = 0
    /\ pc = NoThreads

Init == \E st \in Starts : construct(st)

\* a new process constructs the learner again on the document as it is now
Restart ==
    /\ call.op # "init"
    /\ q_table' = load(doc)
    /\ epsilon' = cfg.epsilon
    /\ call' = InitCall
    /\ UNCHANGED <<doc, cfg, updates, pc>>

\* QLearningNode.select_action(s), exploration branch
SelectExplore(s) ==
    /\ CanExplore(epsilon)
    /\ \E i \in ExploreDraws :
        LET res == select_explore(q_table, s, i) IN
        /\ q_table' = res.q
        /\ call' = CallRec("select", s, NoResult, 0, NoKey, res.result, res.raised,
                           "explore", "none", NoOutput)
    /\ UNCHANGED <<epsilon, doc, cfg, updates, pc>>

\* QLearningNode.select_action(s), greedy branch
SelectGreedy(s) ==
    /\ CanExploit(epsilon)
    /\ LET res == select_greedy(q_table, s) IN
        /\ q_table' = res.q
        /\ call' = CallRec("select", s, NoResult, 0, NoKey, res.result, res.raised,
                           "greedy", "none", NoOutput)
    /\ UNCHANGED <<epsilon, doc, cfg, updates, pc>>

\* QLearningNode.update(s, a, r, ns); `outcome` is how its _save call ends
UpdateAs(op, s, a, r, ns, outcome) ==
    /\ updates < MaxUpdates
    /\ LET res == update_result(q_table, epsilon, doc, cfg, s, a, r, ns, outcome) IN
        /\ q_table' = res.q
        /\ epsilon' = res.eps
        /\ doc' = res.doc
        /\ call' = CallRec(op, s, a, r, ns, NoResult, res.raised, "none",
                           IF res.raised THEN "none" ELSE outcome, NoOutput)
    /\ updates' = updates + 1
    /\ UNCHANGED <<cfg, pc>>

Update(s, a, r, ns, outcome) == UpdateAs("update", s, a, r, ns, outcome)

\* PersonaDecisionGraph.run_once(x) when the rule engine resolves an action
RunOnceRule(x) ==
    /\ heuristic_action(x) # None
    /\ call' = RunRec(x, heuristic_action(x), NoResult, FALSE, "rule",
                      render(heuristic_action(x), x))
    /\ UNCHANGED <<q_table, epsilon, doc, cfg, updates, pc>>

\* the call of run_once finished with the result `res` of select_action
RunOnceSelected(x, res, branch) ==
    /\ q_table' = res.q
    /\ call' = RunRec(x, res.result, res.result, res.raised, branch,
                      IF res.raised THEN NoOutput ELSE render(res.result, x))
    /\ UNCHANGED <<epsilon, doc, cfg, updates, pc>>

\* run_once(x) falling back to the learner, exploration branch
RunOnceExplore(x) ==
    /\ heuristic_action(x) = None
    /\ CanExplore(epsilon)
    /\ \E i \in ExploreDraws :
        RunOnceSelected(x, select_explore(q_table, discretize_state(x), i), "explore")

\* run_once(x) falling back to the learner, greedy branch
RunOnceGreedy(x) ==
    /\ heuristic_action(x) = None
    /\ CanExploit(epsilon)
    /\ RunOnceSelected(x, select_greedy(q_table, discretize_state(x)), "greedy")

\* PersonaDecisionGraph.reward, as the learning test calls it after a run_once:
\* reward(state_id, output.action.type, reward)   (rl_scenario_tests.py:227-228)
Reward(r, outcome) ==
    /\ call.op = "run_once"
    /\ ~call.raised
    /\ call.x = X_TEST
    /\ UpdateAs("reward", K_TEST, call.out.type, r, NoKey, outcome)

\* rewards of the learning test that are fed back
TestRewards == {Tenths(-3), Tenths(8)}

Next ==
    \/ Restart
    \/ \E s \in StateKeys : SelectExplore(s)
    \/ \E s \in StateKeys : SelectGreedy(s)
    \/ \E u \in UpdateArgs, o \in SaveOutcomes : Update(u.s, u.a, u.r, u.ns, o)
    \/ \E x \in Snapshots : RunOnceRule(x)
    \/ \E x \in Snapshots : RunOnceExplore(x)
    \/ \E x \in Snapshots : RunOnceGreedy(x)
    \/ \E r \in TestRewards, o \in SaveOutcomes : Reward(r, o)

Spec == Init /\ [][Next]_vars

\* the learner constructed on any document, also one it did not write
InitLoad == \E st \in LoadStarts : construct(st)

SpecLoad == InitLoad /\ [][Next]_vars

-----------------------------------------------------------------------------
(* Properties *)

IsUpdate(c) == c.op \in {"update", "reward"}
IsSelect(c) == c.op = "select" \/ (c.op = "run_once" /\ c.branch # "rule")

\* some estimate of the table is not 0.0
Learned(q) ==
    /\ q.shape = "dict"
    /\ \E k \in DOMAIN q.rows :
         \E i \in 1..Len(q.rows[k].items) : q.rows[k].items[i][2] # 0

\* C1: a run_once call whose snapshot the rule engine resolves leaves the value
\* table, epsilon and the persisted document as they were; for emotion=stress,
\* flags={deadline_near, interruption_high}, StandardAssistant the action is
\* A_DISTRACTION_SHIELD and the output type distraction_protection.
C1_RuleBypassesLearner ==
    [][ (call'.op = "run_once" /\ heuristic_action(call'.x) # None) =>
          /\ q_table' = q_table
          /\ epsilon' = epsilon
          /\ doc' = doc
          /\ (call'.x = X_STRESS("StandardAssistant") =>
                /\ call'.a = A_DISTRACTION_SHIELD
                /\ call'.out.type = "distraction_protection") ]_vars

\* C1 witness: the scenario has been run on a learner that has learned something
C1_Witness ==
    /\ call.op = "run_once"
    /\ call.x = X_STRESS("StandardAssistant")
    /\ call.a = A_DISTRACTION_SHIELD
    /\ Learned(q_table)

\* C2 (as stated): a select call, and a run_once call that falls back to the
\* learner, leave the value table exactly as it was.
C2_SelectLeavesTable ==
    [][ IsSelect(call') => q_table' = q_table ]_vars

\* C2 (amended): a select call, and a run_once call that falls back to the learner,
\* keep every existing row as it was, add no row but the one of their state key,
\* add that row only when the key was unseen, all catalog actions at 0.0 in
\* catalog order, and leave epsilon and the persisted document alone.
C2_SelectOnlyAddsFreshRow ==
    [][ (IsSelect(call') /\ q_table.shape = "dict") =>
          /\ q_table'.shape = "dict"
          /\ \A k \in DOMAIN q_table.rows :
                k \in DOMAIN q_table'.rows /\ q_table'.rows[k] = q_table.rows[k]
          /\ DOMAIN q_table'.rows = (DOMAIN q_table.rows) \cup {call'.s}
          /\ (call'.s \notin DOMAIN q_table.rows =>
                /\ q_table'.rows[call'.s].shape = "dict"
                /\ Len(q_table'.rows[call'.s].items) = Len(Actions)
                /\ \A i \in 1..Len(Actions) :
                      q_table'.rows[call'.s].items[i] = <<Actions[i], 0>>)
          /\ epsilon' = epsilon
          /\ doc' = doc ]_vars

\* C2 witness: a select has created the row of K_OTHER next to a learned row
C2_Witness ==
    /\ call.op = "select"
    /\ ~call.raised
    /\ call.s = K_OTHER
    /\ HasState(q_table, K_OTHER)
    /\ \A i \in 1..Len(q_table.rows[K_OTHER].items) : q_table.rows[K_OTHER].items[i][2] = 0
    /\ HasState(q_table, K_TEST)
    /\ Learned(q_table)

\* C3: every row of the value table maps exactly the catalog's action ids.
C3_RowsAreExactlyCatalog ==
    q_table.shape = "dict" =>
        \A k \in DOMAIN q_table.rows :
            /\ q_table.rows[k].shape = "dict"
            /\ RowKeys(q_table.rows[k]) = CatalogIds
            /\ Len(q_table.rows[k].items) = Len(Actions)

\* C4: select returns an action id of the catalog.
C4_SelectReturnsCatalogAction ==
    (IsSelect(call) /\ ~call.raised) => call.result \in CatalogIds

\* position of an id in the catalog declaration; ids outside it come last
CatalogPos(a) ==
    IF a \in CatalogIds
    THEN CHOOSE i \in 1..Len(Actions) : Actions[i] = a
    ELSE Len(Actions) + 1

\* C5: on the greedy branch select returns an action whose stored estimate is the
\* maximum of the row of its state key, the first-declared one among those tied at
\* the maximum; for a row that holds only 0.0 that is A_DEEP_WORK_MODE.
C5_GreedyIsFirstMaximum ==
    (IsSelect(call) /\ call.branch = "greedy" /\ ~call.raised) =>
        LET row == q_table.rows[call.s]
            best == RowGet(row, call.result, 0)
        IN /\ RowHas(row, call.result)
           /\ \A i \in 1..Len(row.items) : row.items[i][2] <= best
           /\ \A i \in 1..Len(row.items) :
                 (row.items[i][2] = best /\ row.items[i][1] # call.result) =>
                     CatalogPos(call.result) < CatalogPos(row.items[i][1])
           /\ ((\A i \in 1..Len(row.items) : row.items[i][2] = 0) =>
                 call.result = A_DEEP_WORK_MODE)

\* C5 witness: the first catalog action has a negative estimate, the others tie
\* at 0.0, and the greedy select returned the second catalog action
C5_Witness ==
    /\ call.op = "select"
    /\ call.branch = "greedy"
    /\ call.s = K_TEST
    /\ RowGet(q_table.rows[K_TEST], A_DEEP_WORK_MODE, 0) < 0
    /\ RowGet(q_table.rows[K_TEST], A_FOCUS_FLOW, 0) = 0
    /\ call.result = A_FOCUS_FLOW

\* the estimate of (s, a) in table q, 0.0 when the row or the entry is absent
Estimate(q, s, a) == IF HasState(q, s) THEN RowGet(q.rows[s], a, 0) ELSE 0

\* the largest estimate of row s in table q, 0.0 for a row not yet created
BestEstimate(q, s) == IF HasState(q, s) THEN RowMax(q.rows[s]) ELSE 0

\* C6: update(s, a, r, s') sets table[s][a] to current + alpha * (target - current),
\* current and the maximum over s' being read from the table before the write, and
\* every other estimate of every state keeps its value.
C6_UpdateRule ==
    [][ (IsUpdate(call') /\ ~call'.raised) =>
          LET s == call'.s
              a == call'.a
              current == Estimate(q_table, s, a)
              target == IF call'.ns = NoKey
                        THEN call'.r
                        ELSE call'.r +
                             ((GammaNum * BestEstimate(q_table, call'.ns)) \div GammaDen)
          IN /\ Estimate(q_table', s, a) =
                    current + ((AlphaNum * (target - current)) \div AlphaDen)
             /\ \A k \in DOMAIN q_table.rows :
                   \A i \in 1..Len(q_table.rows[k].items) :
                       LET b == q_table.rows[k].items[i][1] IN
                       (k # s \/ b # a) =>
                           Estimate(q_table', k, b) = q_table.rows[k].items[i][2] ]_vars

\* C6 witness: update(K_TEST, A_FOCUS_FLOW, -0.3, K_TEST) on the saved table, where
\* A_FOCUS_FLOW = 0.5 was the row's maximum: 0.5 + 0.3 * (-0.3 + 0.85 * 0.5 - 0.5)
C6_Witness ==
    /\ call.op = "update"
    /\ call.ns = call.s
    /\ call.a = A_FOCUS_FLOW
    /\ Estimate(q_table, K_TEST, A_FOCUS_FLOW) = 3875 * (VUnit \div 10000)

\* C7 (as stated): on one learner epsilon never increases and is never below
\* min_epsilon; each update sets it to max(min_epsilon, epsilon * epsilon_decay);
\* no other call changes it.
C7_EpsilonNeverIncreases ==
    [][ call'.op # "init" =>
          /\ epsilon' <= epsilon
          /\ epsilon' >= cfg.min_epsilon
          /\ (IsUpdate(call') =>
                epsilon' = MaxOf(cfg.min_epsilon, (epsilon * DecayNum) \div DecayDen))
          /\ (~IsUpdate(call') => epsilon' = epsilon) ]_vars

\* C7 (amended): each update that returns sets epsilon to
\* max(min_epsilon, epsilon * epsilon_decay), whether its save succeeds or fails,
\* and no other call on the learner changes epsilon; on a learner constructed with
\* epsilon >= min_epsilon, epsilon never increases and is never below min_epsilon.
C7_EpsilonDecay ==
    [][ call'.op # "init" =>
          /\ ((IsUpdate(call') /\ ~call'.raised) =>
                epsilon' = MaxOf(cfg.min_epsilon, (epsilon * DecayNum) \div DecayDen))
          /\ (~IsUpdate(call') => epsilon' = epsilon)
          /\ (cfg.epsilon >= cfg.min_epsilon =>
                /\ epsilon' <= epsilon
                /\ epsilon' >= cfg.min_epsilon) ]_vars

\* C7 witness: an update whose save failed has brought epsilon down to the floor
C7_Witness ==
    /\ IsUpdate(call)
    /\ call.save # "ok"
    /\ cfg.epsilon > cfg.min_epsilon
    /\ epsilon = cfg.min_epsilon

\* C8: when the save of an update succeeds, the persisted document is the whole
\* value table as it is when update returns.
C8_SaveWritesWholeTable ==
    (IsUpdate(call) /\ ~call.raised /\ call.save = "ok") =>
        /\ doc.kind = "json"
        /\ doc.content = q_table

\* C8 witness: the only update so far was on K_TEST without a next state, so the
\* all-zero row of K_OTHER was created by a select, and the saved file holds it
C8_Witness ==
    /\ IsUpdate(call)
    /\ call.save = "ok"
    /\ updates = 1
    /\ call.s = K_TEST
    /\ call.ns = NoKey
    /\ HasState(q_table, K_OTHER)
    /\ HasState(doc.content, K_OTHER)
    /\ doc.content.rows[K_OTHER] = FreshRow

\* C9: an update whose save fails returns normally with the new estimate in
\* memory and epsilon decayed, and the persisted document keeps its previous
\* content.
C9_FailedSaveKeepsDocument ==
    [][ (IsUpdate(call') /\ call'.save \in {"open_fails", "write_fails"}) =>
          /\ ~call'.raised
          /\ epsilon' = MaxOf(cfg.min_epsilon, (epsilon * DecayNum) \div DecayDen)
          /\ doc' = doc ]_vars

\* a document that holds a mapping state key -> (action -> number)
IsTableDocument(d) ==
    /\ d.kind = "json"
    /\ d.content.shape = "dict"
    /\ \A k \in DOMAIN d.content.rows : d.content.rows[k].shape = "dict"

\* C10: a learner constructed on a document that is missing, unreadable, corrupt
\* or not a mapping state key -> (action -> number) starts with an empty table.
C10_BadDocumentGivesEmptyTable ==
    (call.op = "init" /\ ~IsTableDocument(doc)) => q_table = EmptyTable

\* every row of the table is a mapping action -> number
TableOfRows(q) ==
    /\ q.shape = "dict"
    /\ \A k \in DOMAIN q.rows : q.rows[k].shape = "dict"

\* C11: select and update never raise, for seen and unseen state keys and action
\* ids, also on a table loaded from a document whose rows are partial or empty
\* relative to the catalog.
C11_SelectUpdateNeverRaise ==
    ((IsSelect(call) \/ IsUpdate(call)) /\ TableOfRows(q_table)) => ~call.raised

-----------------------------------------------------------------------------
(* update followed by a greedy select, epsilon forced to 0 *)

\* QLearningNode(actions, epsilon=0.0, min_epsilon=0.0): epsilon stays 0
ZeroConfig == Config(0, 0)

\* update(s, a, r) without a next state: the first, the second and the last
\* catalog action, a negative, a zero and a positive reward
GreedyUpdateArgs ==
    { Arg(s, a, r, NoKey) :
        s \in StateKeys,
        a \in {A_DEEP_WORK_MODE, A_FOCUS_FLOW, A_NONE},
        r \in {Tenths(-3), 0, Tenths(8)} }

InitGreedy == construct(Start(MissingDoc, ZeroConfig))

NextGreedy ==
    \/ \E u \in GreedyUpdateArgs : Update(u.s, u.a, u.r, u.ns, "ok")
    \/ \E s \in StateKeys : SelectGreedy(s)

SpecGreedy == InitGreedy /\ [][NextGreedy]_vars

\* the ids of a row whose estimate is the row's maximum
Tied(row) == { row.items[i][1] : i \in { j \in 1..Len(row.items) : row.items[j][2] = RowMax(row) } }

\* C12: with epsilon 0, select(s) right after update(s, a, r) without a next state
\* returns a when a's estimate is the unique maximum of row s, and otherwise the
\* first-declared catalog action among those tied at the maximum; on a fresh row
\* that is a for r > 0, the first catalog action for r = 0 and for r < 0 on
\* another action, and the second catalog action for r < 0 on the first one.
C12_SelectAfterUpdate ==
    [][ ( /\ call.op = "update" /\ ~call.raised /\ call.ns = NoKey
          /\ call'.op = "select" /\ call'.branch = "greedy" /\ call'.s = call.s
          /\ epsilon = 0 ) =>
          LET row == q_table.rows[call.s]
              a == call.a
              res == call'.result
          IN /\ ~call'.raised
             /\ (Tied(row) = {a} => res = a)
             /\ res \in Tied(row)
             /\ \A b \in Tied(row) : CatalogPos(res) <= CatalogPos(b)
             /\ (updates = 1 =>
                   /\ (call.r > 0 => res = a)
                   /\ (call.r = 0 => res = Actions[1])
                   /\ ((call.r < 0 /\ a = Actions[1]) => res = Actions[2])
                   /\ ((call.r < 0 /\ a # Actions[1]) => res = Actions[1])) ]_vars

\* C12 witness: the last catalog action holds the only positive estimate of the
\* row and the greedy select returned it
C12_Witness ==
    /\ call.op = "select"
    /\ call.branch = "greedy"
    /\ epsilon = 0
    /\ call.s = K_OTHER
    /\ Tied(q_table.rows[K_OTHER]) = {A_NONE}
    /\ call.result = A_NONE

-----------------------------------------------------------------------------
(* The learning scenario: src/emate/app/rl_scenario_tests.py:186-246 *)

\* for iteration in range(5)
ScenarioRuns == 5

\* the reward fed after run number i (1-based)
ScenarioReward(i) ==
    IF i <= 2 THEN Tenths(-3) ELSE IF i <= 4 THEN Tenths(1) ELSE Tenths(8)

\* the snapshot that is repeated: the test's own, and one no rule resolves
ScenarioSnapshots == {X_TEST, X_BLANK("StandardAssistant")}

\* the state key passed to reward(): the test's literal for its scenario,
\* the discretized key otherwise
ScenarioKey(x) == IF x = X_TEST THEN K_TEST ELSE discretize_state(x)

InitScenario == construct(Start(MissingDoc, DefaultConfig))

\* output = self.decision_graph.run_once(base_scenario)
ScenarioRun ==
    /\ updates < ScenarioRuns
    /\ \E x \in ScenarioSnapshots :
        /\ \/ call.op = "init"
           \/ call.op = "reward" /\ call.x = x
        /\ \/ RunOnceRule(x)
           \/ RunOnceExplore(x)
           \/ RunOnceGreedy(x)

\* self.decision_graph.reward(state_id, output.action.type, reward)
ScenarioFeed(outcome) ==
    /\ call.op = "run_once"
    /\ ~call.raised
    /\ LET r == ScenarioReward(updates + 1)
           s == ScenarioKey(call.x)
           res == update_result(q_table, epsilon, doc, cfg, s, call.out.type, r,
                                NoKey, outcome)
       IN /\ q_table' = res.q
          /\ epsilon' = res.eps
          /\ doc' = res.doc
          /\ call' = [CallRec("reward", s, call.out.type, r, NoKey, NoResult,
                              res.raised, "none",
                              IF res.raised THEN "none" ELSE outcome, NoOutput)
                         EXCEPT !.x = call.x]
    /\ updates' = updates + 1
    /\ UNCHANGED <<cfg, pc>>

\* the greedy select for the scenario's state after the last reward
ScenarioSelect ==
    /\ call.op = "reward"
    /\ updates = ScenarioRuns
    /\ SelectGreedy(call.s)

NextScenario ==
    \/ ScenarioRun
    \/ \E o \in SaveOutcomes : ScenarioFeed(o)
    \/ ScenarioSelect

SpecScenario == InitScenario /\ [][NextScenario]_vars

\* C13: after the five runs with rewards -0.3, -0.3, +0.1, +0.1, +0.8 fed to the
\* action each run reported, the greedy select for the rewarded state returns
\* the action that received the last reward, +0.8.
C13_ScenarioLearnsLastReward ==
    [][ (call.op = "reward" /\ updates = ScenarioRuns /\ call'.op = "select") =>
          /\ call.r = Tenths(8)
          /\ call'.branch = "greedy"
          /\ ~call'.raised
          /\ call'.result = call.a ]_vars

\* C13 witness: the test's own scenario has been played to its end; the run always
\* reported distraction_protection, whose estimate went
\* -0.09, -0.153, -0.0771, -0.02397, 0.223221
C13_Witness ==
    /\ call.op = "select"
    /\ updates = ScenarioRuns
    /\ call.s = K_TEST
    /\ call.result = "distraction_protection"
    /\ Estimate(q_table, K_TEST, "distraction_protection") = 223221 * (VUnit \div 1000000)

-----------------------------------------------------------------------------
(* run_once statement by statement: src/emate/core/graph.py:38-65 *)

Main == "main"

\* the local variables of a run_once call; `trace` lists the stages executed
StageFrame(x) ==
    [op |-> "run_once", at |-> "discretize", x |-> x, state_id |-> NoKey,
     action_id |-> NoResult, output |-> NoOutput, raised |-> FALSE,
     branch |-> "none", trace |-> << >>]

StageDone(f, stage, next) == [f EXCEPT !.trace = Append(@, stage), !.at = next]

AtStage(stage) == Main \in DOMAIN pc /\ pc[Main].at = stage

\* variant: the learner is consulted whatever the rule engine returned
after_rule_always_select(action_id) == "select"

\* if action_id is None: action_id = self.ql.select_action(state_id)
after_rule(action_id) == IF action_id = None THEN "select" ELSE "template"

StageCall(x) ==
    /\ pc = NoThreads
    /\ pc' = (Main :> StageFrame(x))
    /\ UNCHANGED <<q_table, epsilon, doc, cfg, call, updates>>

\* state_id = discretize_state(input_state)
StageDiscretize ==
    /\ AtStage("discretize")
    /\ pc' = (Main :> [StageDone(pc[Main], "discretize", "rule")
                         EXCEPT !.state_id = discretize_state(pc[Main].x)])
    /\ UNCHANGED <<q_table, epsilon, doc, cfg, call, updates>>

\* action_id = self._heuristic_action(input_state)
StageRule ==
    /\ AtStage("rule")
    /\ LET a == heuristic_action(pc[Main].x) IN
        pc' = (Main :> [StageDone(pc[Main], "rule", after_rule(a))
                          EXCEPT !.action_id = a, !.branch = "rule"])
    /\ UNCHANGED <<q_table, epsilon, doc, cfg, call, updates>>

\* the select_action call of run_once has returned `res`
StageSelected(res, branch) ==
    /\ q_table' = res.q
    /\ pc' = (Main :> [StageDone(pc[Main], "select",
                                  IF res.raised THEN "raised" ELSE "template")
                          EXCEPT !.action_id = res.result, !.raised = res.raised,
                                 !.branch = branch])
    /\ UNCHANGED <<epsilon, doc, cfg, call, updates>>

StageSelectExplore ==
    /\ AtStage("select")
    /\ CanExplore(epsilon)
    /\ \E i \in ExploreDraws :
        StageSelected(select_explore(q_table, pc[Main].state_id, i), "explore")

StageSelectGreedy ==
    /\ AtStage("select")
    /\ CanExploit(epsilon)
    /\ StageSelected(select_greedy(q_table, pc[Main].state_id), "greedy")

\* output = map_action_to_output(action_id, related_task=self._guess_task(input_state), ...)
StageTemplate ==
    /\ AtStage("template")
    /\ pc' = (Main :> [StageDone(pc[Main], "template", "filter")
                         EXCEPT !.output = map_action_to_output(pc[Main].action_id,
                                                                guess_task(pc[Main].x),
                                                                pc[Main].x.personality)])
    /\ UNCHANGED <<q_table, epsilon, doc, cfg, call, updates>>

\* output = apply_persona_filter(output, personality)
StageFilter ==
    /\ AtStage("filter")
    /\ pc' = (Main :> [StageDone(pc[Main], "filter", "done")
                         EXCEPT !.output = apply_persona_filter(pc[Main].output,
                                                                pc[Main].x.personality)])
    /\ UNCHANGED <<q_table, epsilon, doc, cfg, call, updates>>

\* return output, or the exception of select_action propagates
StageReturn ==
    /\ AtStage("done") \/ AtStage("raised")
    /\ LET f == pc[Main] IN
        call' = RunRec(f.x, f.action_id,
                       IF f.branch = "rule" THEN NoResult ELSE f.action_id,
                       f.raised, f.branch, f.output)
    /\ pc' = NoThreads
    /\ UNCHANGED <<q_table, epsilon, doc, cfg, updates>>

\* between two run_once calls the caller may feed a reward
StageUpdate ==
    /\ pc = NoThreads
    /\ \E u \in UpdateArgs : Update(u.s, u.a, u.r, u.ns, "ok")

NextStages ==
    \/ \E x \in Snapshots : StageCall(x)
    \/ StageDiscretize
    \/ StageRule
    \/ StageSelectExplore
    \/ StageSelectGreedy
    \/ StageTemplate
    \/ StageFilter
    \/ StageReturn
    \/ StageUpdate

SpecStages == Init /\ [][NextStages]_vars

RulePath == <<"discretize", "rule", "template", "filter">>
LearnedPath == <<"discretize", "rule", "select", "template", "filter">>

IsPrefix(s, t) == Len(s) <= Len(t) /\ \A i \in 1..Len(s) : s[i] = t[i]

\* C14: every run_once call runs Discretize, Rule Attempt, (Learned Fallback),
\* Template, Filter in this order: the stages executed so far are a prefix of
\* that sequence, the learner's select runs at most once and exactly when the
\* rule engine returned no match, and the output returned is the templated output
\* filtered once.
C14_StageOrder ==
    Main \in DOMAIN pc =>
        LET f == pc[Main] IN
        /\ IsPrefix(f.trace, RulePath) \/ IsPrefix(f.trace, LearnedPath)
        /\ (Len(f.trace) >= 3 =>
               (f.trace[3] = "select" <=> heuristic_action(f.x) = None))
        /\ (f.at = "done" =>
               /\ f.trace = (IF heuristic_action(f.x) = None THEN LearnedPath ELSE RulePath)
               /\ f.state_id = discretize_state(f.x)
               /\ f.output = apply_persona_filter(
                                 map_action_to_output(f.action_id, guess_task(f.x),
                                                      f.x.personality),
                                 f.x.personality))

\* C14 witness: a call that fell back to the learner is about to return, on a
\* learner that has learned something
C14_Witness ==
    /\ AtStage("done")
    /\ pc[Main].trace = LearnedPath
    /\ pc[Main].x = X_BLANK("StandardAssistant")
    /\ Learned(q_table)

-----------------------------------------------------------------------------
(* reward() called at any point: src/emate/core/graph.py:67-77 *)

\* variant: next_state_id is not handed on to the learner
reward_result_without_next_state(q, eps, d, c, s, a, r, ns, outcome) ==
    update_result(q, eps, d, c, s, a, r, NoKey, outcome)

\* self.ql.update(prev_state_id, action_id, reward, next_state_id)
reward_result(q, eps, d, c, s, a, r, ns, outcome) ==
    update_result(q, eps, d, c, s, a, r, ns, outcome)

\* PersonaDecisionGraph.reward(s, a, r, ns), whatever was called before
RewardAny(s, a, r, ns, outcome) ==
    /\ updates < MaxUpdates
    /\ LET res == reward_result(q_table, epsilon, doc, cfg, s, a, r, ns, outcome) IN
        /\ q_table' = res.q
        /\ epsilon' = res.eps
        /\ doc' = res.doc
        /\ call' = CallRec("reward", s, a, r, ns, NoResult, res.raised, "none",
                           IF res.raised THEN "none" ELSE outcome, NoOutput)
    /\ updates' = updates + 1
    /\ UNCHANGED <<cfg, pc>>

\* arguments of reward(): those of the direct updates, and an output's action type
RewardArgs == UpdateArgs \cup {Arg(K_TEST, "distraction_protection", Tenths(8), NoKey)}

InitReward ==
    \E d \in {MissingDoc, JsonDoc(SavedTable)} : construct(Start(d, DefaultConfig))

NextReward ==
    \/ \E u \in RewardArgs, o \in SaveOutcomes : RewardAny(u.s, u.a, u.r, u.ns, o)
    \/ \E x \in Snapshots : RunOnceRule(x)
    \/ \E x \in Snapshots : RunOnceExplore(x)
    \/ \E x \in Snapshots : RunOnceGreedy(x)

SpecReward == InitReward /\ [][NextReward]_vars

\* C15: reward(s, a, r, ns) is one learner update with these arguments: the
\* estimate of (s, a) is written by the update rule, every other estimate keeps
\* its value, epsilon is decayed once, one save is attempted, nothing else changes
\* and the call returns, whatever was called before it.
C15_RewardIsOneUpdate ==
    [][ call'.op = "reward" =>
          LET s == call'.s
              a == call'.a
              current == Estimate(q_table, s, a)
              target == IF call'.ns = NoKey
                        THEN call'.r
                        ELSE call'.r +
                             ((GammaNum * BestEstimate(q_table, call'.ns)) \div GammaDen)
          IN /\ ~call'.raised
             /\ Estimate(q_table', s, a) =
                    current + ((AlphaNum * (target - current)) \div AlphaDen)
             /\ \A k \in DOMAIN q_table'.rows :
                   \A i \in 1..Len(q_table'.rows[k].items) :
                       LET b == q_table'.rows[k].items[i][1] IN
                       (k # s \/ b # a) =>
                           q_table'.rows[k].items[i][2] = Estimate(q_table, k, b)
             /\ DOMAIN q_table'.rows =
                    (DOMAIN q_table.rows) \cup {s} \cup ({call'.ns} \ {NoKey})
             /\ epsilon' = MaxOf(cfg.min_epsilon, (epsilon * DecayNum) \div DecayDen)
             /\ doc' = (IF call'.save = "ok" THEN JsonDoc(q_table')
                        ELSE IF call'.save = "open_fails" THEN doc
                        ELSE CorruptDoc)
             /\ cfg' = cfg
             /\ pc' = pc
             /\ updates' = updates + 1 ]_vars

\* C15 witness: the second of two rewards in a row, with a next state, on a
\* learner no run_once has left a row in
C15_Witness ==
    /\ call.op = "reward"
    /\ call.ns = K_TEST
    /\ call.s = K_OTHER
    /\ updates = 2
    /\ DOMAIN q_table.rows = {K_TEST, K_OTHER}

-----------------------------------------------------------------------------
(* Two threads calling one learner.  QLearningNode and PersonaDecisionGraph *)
(* hold no lock, so the statements of two calls interleave; a thread is     *)
(* switched between statements (the interpreter can also switch inside one). *)

Threads == {"t1", "t2"}

\* the local variables of a select_action or update call
ConcFrame(op, r) ==
    [op |-> op, at |-> "ensure", s |-> K_TEST, a |-> A_FOCUS_FLOW, r |-> r,
     current |-> 0, result |-> NoResult, seen |-> FreshRow]

\* a thread calls select_action(K_TEST) or update(K_TEST, A_FOCUS_FLOW, r)
ConcCall(t) ==
    /\ t \notin DOMAIN pc
    /\ \/ pc' = (t :> ConcFrame("select", 0)) @@ pc
       \/ \E r \in TestRewards : pc' = (t :> ConcFrame("update", r)) @@ pc
    /\ UNCHANGED <<q_table, epsilon, doc, cfg, call, updates>>

\* self._ensure_state(state_id)
ConcEnsure(t) ==
    /\ t \in DOMAIN pc /\ pc[t].at = "ensure"
    /\ q_table' = ensure_state(q_table, pc[t].s)
    /\ pc' = [pc EXCEPT ![t].at = IF pc[t].op = "select" THEN "pick" ELSE "read"]
    /\ UNCHANGED <<epsilon, doc, cfg, call, updates>>

\* action_values = self.q_table[state_id]; return max(action_values, key=...)
ConcPick(t) ==
    /\ t \in DOMAIN pc /\ pc[t].at = "pick"
    /\ pc' = [pc EXCEPT ![t].at = "done",
                        ![t].seen = q_table.rows[pc[t].s],
                        ![t].result = greedy_action(q_table.rows[pc[t].s])]
    /\ UNCHANGED <<q_table, epsilon, doc, cfg, call, updates>>

\* current = self.q_table[state_id].get(action_id, 0.0)
ConcRead(t) ==
    /\ t \in DOMAIN pc /\ pc[t].at = "read"
    /\ pc' = [pc EXCEPT ![t].at = "write",
                        ![t].current = RowGet(q_table.rows[pc[t].s], pc[t].a, 0)]
    /\ UNCHANGED <<q_table, epsilon, doc, cfg, call, updates>>

\* self.q_table[state_id][action_id] = current + self.alpha * (target - current)
ConcWrite(t) ==
    /\ t \in DOMAIN pc /\ pc[t].at = "write"
    /\ q_table' = write_estimate(q_table, pc[t].s, pc[t].a,
                                 new_value(pc[t].current,
                                           td_target(q_table, pc[t].r, NoKey)))
    /\ pc' = [pc EXCEPT ![t].at = "save"]
    /\ UNCHANGED <<epsilon, doc, cfg, call, updates>>

\* self._save()
ConcSave(t) ==
    /\ t \in DOMAIN pc /\ pc[t].at = "save"
    /\ doc' = save(q_table, doc, "ok")
    /\ pc' = [pc EXCEPT ![t].at = "decay"]
    /\ UNCHANGED <<q_table, epsilon, cfg, call, updates>>

\* self.epsilon = max(self.min_epsilon, self.epsilon * self.epsilon_decay)
ConcDecay(t) ==
    /\ t \in DOMAIN pc /\ pc[t].at = "decay"
    /\ epsilon' = decay_epsilon(epsilon, cfg)
    /\ updates' = updates + 1
    /\ pc' = [pc EXCEPT ![t].at = "done"]
    /\ UNCHANGED <<q_table, doc, cfg, call>>

NextConc ==
    \E t \in Threads :
        \/ ConcCall(t)
        \/ ConcEnsure(t)
        \/ ConcPick(t)
        \/ ConcRead(t)
        \/ ConcWrite(t)
        \/ ConcSave(t)
        \/ ConcDecay(t)

SpecConc == InitScenario /\ [][NextConc]_vars

\* C16: two concurrent calls on one learner behave as if serialized: when two
\* updates of the same (state, action) have both returned, the estimate is the one
\* some serial order of the two produces and epsilon has been decayed twice, and
\* a select has seen a row that holds every catalog action.
C16_ConcurrentCallsSerialized ==
    (DOMAIN pc = Threads /\ \A t \in Threads : pc[t].at = "done") =>
        /\ \A t \in Threads :
              pc[t].op = "select" => RowKeys(pc[t].seen) = CatalogIds
        /\ (\A t \in Threads : pc[t].op = "update") =>
              /\ \E t, u \in Threads :
                    /\ t # u
                    /\ Estimate(q_table, K_TEST, A_FOCUS_FLOW) =
                          new_value(new_value(0, pc[t].r), pc[u].r)
              /\ epsilon = decay_epsilon(decay_epsilon(cfg.epsilon, cfg), cfg)

-----------------------------------------------------------------------------
(* The discretizer applied to snapshots: src/emate/micro/state_discretizer.py *)

\* Snapshots of the contract's closed sets (contracts.py:17-21, 154-165).  Each
\* family varies the fields one dimension reads over all their values, with the
\* flags the dimension does not read all absent or all present.
DiscSnapshots ==
    LET Em == {None, "stress", "calm", "happy", "sad", "angry", "fatigue"}
        Se == {None, "positive", "neutral", "negative"}
        Tod == {None, "morning", "afternoon", "evening", "night"}
        RhythmFlags == {"deep_work_mode", "deadline_near", "task_switching",
                        "interruption_high"}
        HealthFlags == {"sitting_over_2h", "sitting_over_1h", "high_workload",
                        "environment_uncomfortable"}
        EnvFlags == {"energy_high", "post_lunch_dip", "overtime", "interruption_high",
                     "quiet_space"}
        AllFlags == RhythmFlags \cup HealthFlags \cup EnvFlags
        Texts == {{}, {"fenghuang"}, {"phoenix"}, {"zhongyao_xiangmu", "xiangmu"},
                  {"xiangmu"}, {"baogao"}}
        Eps(n, w) == [i \in 1..n |-> {w}]
        P == "StandardAssistant"
    IN  { Snapshot({}, e, None, fs \cup bg, None, << >>, P) :
            e \in Em, fs \in SUBSET RhythmFlags, bg \in {{}, AllFlags \ RhythmFlags} }
        \cup
        { Snapshot({}, e, None, fs \cup bg, None, << >>, P) :
            e \in Em, fs \in SUBSET HealthFlags, bg \in {{}, AllFlags \ HealthFlags} }
        \cup
        { Snapshot({}, None, None, fs \cup bg, tod, << >>, P) :
            tod \in Tod, fs \in SUBSET EnvFlags, bg \in {{}, AllFlags \ EnvFlags} }
        \cup
        { Snapshot({}, e, se, {}, None, Eps(n, "interaction"), P) :
            e \in Em, se \in Se, n \in 0..MaxEpisodes }
        \cup
        { Snapshot(txt, None, None, fs, None, Eps(n, w), P) :
            txt \in Texts, fs \in {{}, {"deadline_near"}}, n \in 0..MaxEpisodes,
            w \in {"mubiao", "jihua", "xiangmu", "interaction"} }

\* what a discretize_state(x) call was given and returned
DiscRec(x) ==
    [op |-> "discretize", x |-> x, s |-> discretize_state(x),
     parts |-> state_parts(x), raised |-> FALSE]

\* state_id = discretize_state(x)
Discretize(x) ==
    /\ call' = DiscRec(x)
    /\ UNCHANGED <<q_table, epsilon, doc, cfg, updates, pc>>

NextDisc == \E x \in DiscSnapshots : Discretize(x)

SpecDisc == InitScenario /\ [][NextDisc]_vars

\* C17: discretize returns five segments joined by "|", prefixed RHYTHM_, HEALTH_,
\* EMOTION_, GOAL_, ENV_ in this order, each followed by a tag of the dimension's
\* closed tag set, and does not raise.
C17_KeyHasFiveTaggedSegments ==
    call.op = "discretize" =>
        LET RhythmTags == {"deep_focus", "intense_work", "energy_low", "steady_flow",
                           "fragmented", "normal"}
            HealthTags == {"sitting_long", "sitting_moderate", "stress_high",
                           "energy_depleted", "env_poor", "healthy"}
            EmotionTags == {"overwhelmed", "need_comfort", "positive_mood",
                            "emotionally_drained", "connected", "distant", "neutral"}
            GoalTags == {"important_behind", "important_progress", "goal_active",
                         "goal_unclear", "routine"}
            EnvTags == {"morning_fresh", "afternoon_low", "evening_overtime"} \cup
                       { tod \o sfx :
                           tod \in {"morning", "afternoon", "evening", "night", "unknown"},
                           sfx \in {"_chaotic", "_peaceful", "_normal"} }
        IN /\ ~call.raised
           /\ Len(call.parts) = 5
           /\ call.parts[1] \in { "RHYTHM_" \o tg : tg \in RhythmTags }
           /\ call.parts[2] \in { "HEALTH_" \o tg : tg \in HealthTags }
           /\ call.parts[3] \in { "EMOTION_" \o tg : tg \in EmotionTags }
           /\ call.parts[4] \in { "GOAL_" \o tg : tg \in GoalTags }
           /\ call.parts[5] \in { "ENV_" \o tg : tg \in EnvTags }
           /\ call.s = call.parts[1] \o "|" \o call.parts[2] \o "|" \o call.parts[3]
                          \o "|" \o call.parts[4] \o "|" \o call.parts[5]

\* C17 witness: the snapshot in which every optional field is absent
C17_Witness ==
    /\ call.op = "discretize"
    /\ call.x = X_BLANK("StandardAssistant")
    /\ call.s = "RHYTHM_normal|HEALTH_healthy|EMOTION_distant|GOAL_goal_unclear|ENV_unknown_normal"

\* C18 (as stated): health is sitting_long, else sitting_moderate, else stress_high
\* for emotion stress with high_workload, else energy_depleted for fatigue, else
\* env_poor, else healthy; stress_high only when the emotion is stress.
C18_HealthStressOnly ==
    call.op = "discretize" =>
        LET e == call.x.speech_emotion
            fl == call.x.context_flags
        IN call.parts[2] = "HEALTH_" \o
             (IF "sitting_over_2h" \in fl THEN "sitting_long"
              ELSE IF "sitting_over_1h" \in fl THEN "sitting_moderate"
              ELSE IF e = "stress" /\ "high_workload" \in fl THEN "stress_high"
              ELSE IF e = "fatigue" THEN "energy_depleted"
              ELSE IF "environment_uncomfortable" \in fl THEN "env_poor"
              ELSE "healthy")

\* C18 (amended): as above, with stress_high for emotion stress or angry together
\* with high_workload.
C18_HealthStressOrAngry ==
    call.op = "discretize" =>
        LET e == call.x.speech_emotion
            fl == call.x.context_flags
        IN call.parts[2] = "HEALTH_" \o
             (IF "sitting_over_2h" \in fl THEN "sitting_long"
              ELSE IF "sitting_over_1h" \in fl THEN "sitting_moderate"
              ELSE IF (e = "stress" \/ e = "angry") /\ "high_workload" \in fl
                   THEN "stress_high"
              ELSE IF e = "fatigue" THEN "energy_depleted"
              ELSE IF "environment_uncomfortable" \in fl THEN "env_poor"
              ELSE "healthy")

\* C18 witness: angry with high_workload and an uncomfortable environment, not sitting
C18_Witness ==
    /\ call.op = "discretize"
    /\ call.x.speech_emotion = "angry"
    /\ call.x.context_flags = {"high_workload", "environment_uncomfortable"}
    /\ call.parts[2] = "HEALTH_stress_high"

\* C19: rhythm is deep_focus for deep_work_mode, else intense_work for stress with
\* deadline_near, else energy_low for fatigue, else steady_flow for calm without
\* task_switching, else fragmented for task_switching or interruption_high, else
\* normal, for every emotion (also absent) and flag set.
C19_RhythmFirstMatch ==
    call.op = "discretize" =>
        LET e == call.x.speech_emotion
            fl == call.x.context_flags
        IN call.parts[1] = "RHYTHM_" \o
             (IF "deep_work_mode" \in fl THEN "deep_focus"
              ELSE IF e = "stress" /\ "deadline_near" \in fl THEN "intense_work"
              ELSE IF e = "fatigue" THEN "energy_low"
              ELSE IF e = "calm" /\ "task_switching" \notin fl THEN "steady_flow"
              ELSE IF "task_switching" \in fl \/ "interruption_high" \in fl
                   THEN "fragmented"
              ELSE "normal")

\* C19 witness: calm with interruption_high but without task_switching
C19_Witness ==
    /\ call.op = "discretize"
    /\ call.x.speech_emotion = "calm"
    /\ call.x.context_flags = {"interruption_high"}
    /\ call.parts[1] = "RHYTHM_steady_flow"

\* C20: environment is morning_fresh, afternoon_low or evening_overtime for the
\* three time-specific combinations, which come first; otherwise the time tag
\* ("unknown" when absent) followed by _chaotic for interruption_high, else
\* _peaceful for quiet_space, else _normal.
C20_EnvironmentRules ==
    call.op = "discretize" =>
        LET tod == IF call.x.time_of_day = None THEN "unknown" ELSE call.x.time_of_day
            fl == call.x.context_flags
        IN call.parts[5] = "ENV_" \o
             (IF tod = "morning" /\ "energy_high" \in fl THEN "morning_fresh"
              ELSE IF tod = "afternoon" /\ "post_lunch_dip" \in fl THEN "afternoon_low"
              ELSE IF tod = "evening" /\ "overtime" \in fl THEN "evening_overtime"
              ELSE IF "interruption_high" \in fl THEN tod \o "_chaotic"
              ELSE IF "quiet_space" \in fl THEN tod \o "_peaceful"
              ELSE tod \o "_normal")

\* C20 witness: a morning with energy_high, interruption_high and quiet_space
C20_Witness ==
    /\ call.op = "discretize"
    /\ call.x.time_of_day = "morning"
    /\ call.x.context_flags = {"energy_high", "interruption_high", "quiet_space"}
    /\ call.parts[5] = "ENV_morning_fresh"

-----------------------------------------------------------------------------
(* The personality filter applied to any output: persona_guard.py *)

\* apply_persona_filter(out, personality), called on an OutputCommand built by
\* any caller: one token of each kind the filters look at, any action type the
\* filters test and one they do not, with and without a duration.  The filter
\* reads and writes nothing but its argument, so one application from the
\* state after construction covers every application.
ApplyFilter ==
    LET Words == {"_", "tilde", "qing", "juhao", "lijie", "gongzuo", "taibangle"}
        Texts == {NoText} \cup UNION { [1..n -> Words] : n \in 0..MaxTokens }
        Outputs == { Output(type, screen, "focus_blue", duration, None, text) :
                        type \in {"suggest_break", "none", "set_reminder"},
                        screen \in {"focused", "gentle_stretch"},
                        duration \in {<< >>, <<25>>},
                        text \in Texts }
    IN  \E out \in Outputs, personality \in Personalities \cup {"Stranger"} :
            /\ call.op = "init"
            /\ call' = [op |-> "filter", action_id |-> NoResult, given |-> out,
                        personality |-> personality,
                        out |-> apply_persona_filter(out, personality), raised |-> FALSE]
            /\ UNCHANGED <<q_table, epsilon, doc, cfg, updates, pc>>

\* apply_persona_filter(map_action_to_output(action_id, task, personality),
\* personality) for every action of the catalog and an id outside it
FilterTemplated ==
    \E action_id \in CatalogIds \cup {"quiet_companionship"},
       task \in {None, "task_work_report", "task_project"},
       personality \in Personalities \cup {"Stranger"} :
        LET out == map_action_to_output(action_id, task, personality) IN
        /\ call.op = "init"
        /\ call' = [op |-> "filter", action_id |-> action_id, given |-> out,
                    personality |-> personality,
                    out |-> apply_persona_filter(out, personality), raised |-> FALSE]
        /\ UNCHANGED <<q_table, epsilon, doc, cfg, updates, pc>>

NextFilter == ApplyFilter \/ FilterTemplated

SpecFilter == InitScenario /\ [][NextFilter]_vars

\* C21: the ColdBoss filter turns a suggest_break output into enter_focus_mode with
\* duration 45 and the SarcasticFighter filter into enter_focus_mode with duration
\* 90, whatever the text, effects and previous duration; an output of any other
\* type keeps its type and parameters under both filters.
C21_BreakBecomesFocus ==
    (call.op = "filter" /\ call.personality \in {"ColdBoss", "SarcasticFighter"}) =>
        IF call.given.type = "suggest_break"
        THEN /\ call.out.type = "enter_focus_mode"
             /\ call.out.duration = (IF call.personality = "ColdBoss" THEN <<45>> ELSE <<90>>)
             /\ call.out.related_task = call.given.related_task
        ELSE /\ call.out.type = call.given.type
             /\ call.out.duration = call.given.duration
             /\ call.out.related_task = call.given.related_task

\* C21 witness: the SarcasticFighter filter has coerced a suggest_break output that
\* carried a text about work and a duration of 25
C21_Witness ==
    /\ call.op = "filter"
    /\ call.personality = "SarcasticFighter"
    /\ call.given.type = "suggest_break"
    /\ call.given.duration = <<25>>
    /\ call.given.text = <<"gongzuo", "juhao">>
    /\ call.out.type = "enter_focus_mode"
    /\ call.out.duration = <<90>>

-----------------------------------------------------------------------------
(* run_once for every personality: src/emate/core/graph.py:38-65 *)

\* the snapshots: every personality, with no emotion, calm, fatigue or stress,
\* and each trigger of the rule engines alone or in the listed combinations
PipeSnapshots ==
    LET Em == {None, "calm", "fatigue", "stress"}
        Flags == { {}, {"deep_work_mode"}, {"important_task", "quiet_space"},
                   {"interruption_high"}, {"noise_distraction"}, {"sitting_over_2h"},
                   {"progress_review"}, {"task_switching"}, {"deadline_near"},
                   {"deadline_near", "task_switching"},
                   {"task_creation", "deadline_near", "important_project"},
                   {"deadline_near", "interruption_high"},
                   {"eye_strain", "sitting_over_2h"}, {"environment_uncomfortable"},
                   {"improvement_seeking"}, {"habit_formation"},
                   {"achievement_unlocked"}, {"emotional_distress"} }
    IN  { Snapshot({}, e, None, fs, None, << >>, p) :
            e \in Em, fs \in Flags, p \in Personalities }
        \cup
        { Snapshot(txt, "happy", None, {"progress_review"}, None, << >>, p) :
            txt \in {{"baogao"}, {"fenghuang", "xiangmu"}}, p \in Personalities }
        \cup
        \* the learning test's scenario and the task-creation scenario
        \* (rl_scenario_tests.py:192-205, 253-268)
        { X_TEST,
          Snapshot({"fenghuang", "xiangmu"}, "calm", "neutral",
                   {"task_creation", "deadline_near", "important_project"}, "morning",
                   << {"xiangmu"} >>, "StandardAssistant") }

\* output = graph.run_once(x), as the first call or after a reward was fed back
PipeRun ==
    /\ call.op \in {"init", "reward"}
    /\ \E x \in PipeSnapshots :
        \/ RunOnceRule(x)
        \/ RunOnceExplore(x)
        \/ RunOnceGreedy(x)

\* graph.reward(state_id, action, 0.8) for a call the learner answered; the
\* action is the chosen action id or, as in rl_scenario_tests.py:228, the
\* output's action type
PipeReward ==
    /\ call.op = "run_once"
    /\ call.branch # "rule"
    /\ ~call.raised
    /\ \E a \in {call.a, call.out.type} : RewardAny(call.s, a, Tenths(8), NoKey, "ok")

NextPipeline == PipeRun \/ PipeReward

SpecPipeline == InitScenario /\ [][NextPipeline]_vars

\* contracts.py:42-77
ScreenAnimation ==
    { "focused", "celebrating", "empathetic_nod", "sleeping", "breathing_calm",
      "deep_focus_shield", "flow_waves", "energy_spark", "gentle_stretch",
      "breathing_guide", "environment_adjust", "empathetic_presence",
      "celebration_sparkle", "gentle_pulse", "progress_chart", "habit_formation",
      "wisdom_sharing", "space_harmony", "shield_protection", "ambient_waves",
      "gentle_breathing" }

\* contracts.py:80-114
LightEffect ==
    { "focus_blue", "warm_yellow_glow", "calm_green_pulse", "off",
      "focus_deep_blue", "flow_gradient", "energizing_orange", "health_green_pulse",
      "calm_breathing", "comfort_warm", "warm_embrace", "joy_rainbow",
      "soft_presence", "progress_blue", "habit_purple", "insight_gold",
      "optimization_white", "protection_cyan", "ambient_mood", "soft_ambient" }

\* contracts.py:117-151
ActionType ==
    { "set_reminder", "enter_focus_mode", "suggest_break", "none",
      "deep_work_protection", "focus_flow_guidance", "energy_boost_suggestion",
      "movement_reminder", "breathing_relaxation", "environment_optimization",
      "emotional_support", "achievement_celebration", "quiet_companionship",
      "goal_progress_review", "habit_formation_nudge", "personalized_insight",
      "workspace_optimization", "distraction_protection", "ambient_atmosphere",
      "silent_companionship" }

\* C22: every OutputCommand run_once returns is fully populated: its screen and
\* light tags are present and members of ScreenAnimation and LightEffect, its
\* action type is a member of ActionType, and its spoken text is a string,
\* possibly empty -- whatever the snapshot, the personality, the learner's state
\* and the action the rule engine or the learner chose.
C22_OutputFullyPopulated ==
    (call.op = "run_once" /\ ~call.raised) =>
        /\ call.out.screen \in ScreenAnimation
        /\ call.out.light \in LightEffect
        /\ call.out.type \in ActionType
        /\ call.out.text # NoText
        /\ \A i \in DOMAIN call.out.text : call.out.text[i] # None

\* C22 witness: the learner, after rewards, answered with an id that is not an
\* action of the catalog, and the output is the silent one
C22_Witness ==
    /\ call.op = "run_once"
    /\ call.branch = "greedy"
    /\ call.a \notin CatalogIds
    /\ updates > 0
    /\ call.out.type = "silent_companionship"
    /\ call.out.screen = "gentle_breathing"
    /\ call.out.text = << >>

\* run_once calls and direct calls of the filter
SpecOutputs == InitScenario /\ [][NextPipeline \/ NextFilter]_vars

\* C23: for emotion fatigue, flags {sitting_over_2h} and CuteCat, run_once
\* returns type movement_reminder with a non-empty text that contains a whimsical
\* marker; and every non-empty text that leaves the CuteCat filter, in run_once or
\* called directly, contains one of "~", U+55B5, "nya".
C23_CuteCatSuffix ==
    LET cute == {"tilde", "miao", "nya"} IN
    /\ (call.op = "run_once" /\ call.x = X_TIRED("CuteCat")) =>
          /\ ~call.raised
          /\ call.out.type = "movement_reminder"
          /\ Truthy(call.out.text)
          /\ Contains(call.out.text, cute)
    /\ (call.op = "run_once" /\ call.x.personality = "CuteCat" /\ Truthy(call.out.text)) =>
          Contains(call.out.text, cute)
    /\ (call.op = "filter" /\ call.personality = "CuteCat" /\ Truthy(call.out.text)) =>
          Contains(call.out.text, cute)

\* C23 witness: the scenario's run_once has returned the CuteCat movement message
C23_Witness ==
    /\ call.op = "run_once"
    /\ call.x = X_TIRED("CuteCat")
    /\ call.a = A_MOVEMENT_REMINDER
    /\ call.out.text = <<"_", "tilde", "_", "miao">>

\* the deep-work and the distraction condition of StandardAssistant, and whether
\* any of its six predicates holds
DeepWork(x) ==
    \/ "deep_work_mode" \in x.context_flags
    \/ {"important_task", "quiet_space"} \subseteq x.context_flags

Distracted(x) == x.context_flags \cap {"interruption_high", "noise_distraction"} # {}

AnyStandardRule(x) ==
    \/ DeepWork(x)
    \/ Distracted(x)
    \/ "sitting_over_2h" \in x.context_flags \/ x.speech_emotion = "fatigue"
    \/ x.context_flags \cap {"progress_review", "goal_review"} # {}
    \/ (x.speech_emotion = "calm" /\ "task_switching" \notin x.context_flags)
    \/ "deadline_near" \in x.context_flags

\* C24 as stated: StandardAssistant tries the deep-work and then the distraction
\* condition before any other rule, and when none of its predicates matches the
\* rule engine returns A_DEEP_WORK_MODE as its default.
C24_StandardDefaultsToDeepWork ==
    (call.op = "run_once" /\ call.x.personality = "StandardAssistant") =>
        /\ DeepWork(call.x) => (call.branch = "rule" /\ call.a = A_DEEP_WORK_MODE)
        /\ (~DeepWork(call.x) /\ Distracted(call.x)) =>
              (call.branch = "rule" /\ call.a = A_DISTRACTION_SHIELD)
        /\ ~AnyStandardRule(call.x) => (call.branch = "rule" /\ call.a = A_DEEP_WORK_MODE)

\* C24: StandardAssistant tries the deep-work and then the distraction condition
\* before any other rule, and when none of its predicates matches the rule
\* engine returns no match: run_once asks the learner; the rule engine answers
\* exactly when one of the predicates holds.
C24_StandardFallsBackToLearner ==
    (call.op = "run_once" /\ call.x.personality = "StandardAssistant") =>
        /\ DeepWork(call.x) => (call.branch = "rule" /\ call.a = A_DEEP_WORK_MODE)
        /\ (~DeepWork(call.x) /\ Distracted(call.x)) =>
              (call.branch = "rule" /\ call.a = A_DISTRACTION_SHIELD)
        /\ (call.branch = "rule") <=> AnyStandardRule(call.x)
        /\ ~AnyStandardRule(call.x) => call.a = call.result

\* C24 witness: a StandardAssistant snapshot that meets none of the predicates
\* (stress, habit_formation) was answered by the learner's greedy branch
C24_Witness ==
    /\ call.op = "run_once"
    /\ call.x.personality = "StandardAssistant"
    /\ call.x.speech_emotion = "stress"
    /\ call.x.context_flags = {"habit_formation"}
    /\ call.branch = "greedy"
    /\ call.a = A_DEEP_WORK_MODE

\* C25: for StandardAssistant a task-creation snapshot with deadline_near and none
\* of the deep-work, interruption/noise, sitting/fatigue or review triggers is
\* resolved to type set_reminder or goal_progress_review, whatever the emotion.
C25_TaskCreationGetsReminder ==
    (/\ call.op = "run_once"
     /\ call.x.personality = "StandardAssistant"
     /\ {"task_creation", "deadline_near"} \subseteq call.x.context_flags
     /\ ~DeepWork(call.x)
     /\ ~Distracted(call.x)
     /\ "sitting_over_2h" \notin call.x.context_flags
     /\ call.x.speech_emotion # "fatigue"
     /\ call.x.context_flags \cap {"progress_review", "goal_review"} = {})
    => call.out.type \in {"set_reminder", "goal_progress_review"}

-----------------------------------------------------------------------------
(* One update call, statement by statement: src/emate/micro/qlearning.py:144-177 *)

\* update(K_TEST, A_FOCUS_FLOW, r) is called; eps0 is self.epsilon at the call
\* and save is how the _save() of this call ended ("none": not yet attempted)
StepCall ==
    /\ pc = NoThreads
    /\ updates < MaxUpdates
    /\ \E r \in TestRewards :
        pc' = (Main :> [op |-> "update", at |-> "ensure", s |-> K_TEST,
                        a |-> A_FOCUS_FLOW, r |-> r, current |-> 0,
                        eps0 |-> epsilon, save |-> "none"])
    /\ UNCHANGED <<q_table, epsilon, doc, cfg, call, updates>>

\* variant: epsilon is decayed by the time _save() returns
StepSave_after_decay(t, outcome) ==
    /\ t \in DOMAIN pc /\ pc[t].at = "save"
    /\ doc' = save(q_table, doc, outcome)
    /\ epsilon' = decay_epsilon(epsilon, cfg)
    /\ pc' = [pc EXCEPT ![t].at = "decay", ![t].save = outcome]
    /\ UNCHANGED <<q_table, cfg, call, updates>>

\* self._save(), which swallows its failure
StepSave(t, outcome) ==
    /\ t \in DOMAIN pc /\ pc[t].at = "save"
    /\ doc' = save(q_table, doc, outcome)
    /\ pc' = [pc EXCEPT ![t].at = "decay", ![t].save = outcome]
    /\ UNCHANGED <<q_table, epsilon, cfg, call, updates>>

\* update returns
StepReturn ==
    /\ Main \in DOMAIN pc /\ pc[Main].at = "done"
    /\ call' = CallRec("update", pc[Main].s, pc[Main].a, pc[Main].r, NoKey, NoResult,
                       FALSE, "none", pc[Main].save, NoOutput)
    /\ pc' = NoThreads
    /\ UNCHANGED <<q_table, epsilon, doc, cfg, updates>>

NextSteps ==
    \/ StepCall
    \/ ConcEnsure(Main)
    \/ ConcRead(Main)
    \/ ConcWrite(Main)
    \/ \E o \in SaveOutcomes : StepSave(Main, o)
    \/ ConcDecay(Main)
    \/ StepReturn

SpecSteps == InitScenario /\ [][NextSteps]_vars

\* C26 as stated: within one update the new estimate is written, then epsilon is
\* decayed, then the table is persisted: when the save is attempted epsilon
\* already has its decayed value.
C26_DecayBeforeSave ==
    (Main \in DOMAIN pc /\ pc[Main].at = "save") =>
        /\ Estimate(q_table, pc[Main].s, pc[Main].a) =
              new_value(pc[Main].current, pc[Main].r)
        /\ epsilon = decay_epsilon(pc[Main].eps0, cfg)

\* C26: within one update the new estimate is written, then the table is
\* persisted, then epsilon is decayed: when the save is attempted the estimate is
\* in the table and epsilon still has the value it had at the call; when update
\* returns epsilon is decayed once, however the save ended.
C26_SaveBeforeDecay ==
    Main \in DOMAIN pc =>
        LET f == pc[Main] IN
        /\ f.at \in {"save", "decay", "done"} =>
              Estimate(q_table, f.s, f.a) = new_value(f.current, f.r)
        /\ f.at \in {"ensure", "read", "write", "save"} => f.save = "none"
        /\ f.at \in {"ensure", "read", "write", "save", "decay"} => epsilon = f.eps0
        /\ f.at \in {"decay", "done"} => f.save \in SaveOutcomes
        /\ f.at = "done" => epsilon = decay_epsilon(f.eps0, cfg)

\* C26 witness: an update whose save failed while writing is about to return, with
\* epsilon decayed below its value at the call
C26_Witness ==
    /\ Main \in DOMAIN pc
    /\ pc[Main].at = "done"
    /\ pc[Main].save = "write_fails"
    /\ doc = CorruptDoc
    /\ epsilon < pc[Main].eps0
    /\ epsilon = decay_epsilon(pc[Main].eps0, cfg)

\* C27: for CuteCat, ColdBoss, WarmSister, AnimeWizard and SarcasticFighter the
\* rule engine resolves an action for every snapshot, so run_once does not consult
\* the learner: the call leaves table, epsilon and document as they are and its
\* output is the filtered template of the rule's action, which depends on the
\* snapshot only; a call answered by the learner has a StandardAssistant snapshot.
C27_OnlyStandardReachesLearner ==
    [][ call'.op = "run_once" =>
          /\ call'.x.personality # "StandardAssistant" =>
                /\ call'.branch = "rule"
                /\ ~call'.raised
                /\ call'.a \in CatalogIds
                /\ call'.a = heuristic_action(call'.x)
                /\ call'.out = render(call'.a, call'.x)
                /\ UNCHANGED <<q_table, epsilon, doc>>
          /\ call'.branch # "rule" => call'.x.personality = "StandardAssistant"
      ]_vars

\* C27 witness: after two rewards, an AnimeWizard snapshot with nothing perceived
\* was resolved to the personality's default action by the rule engine
C27_Witness ==
    /\ call.op = "run_once"
    /\ call.x = X_BLANK("AnimeWizard")
    /\ call.branch = "rule"
    /\ call.a = A_PERSONALIZED_INSIGHT
    /\ updates = 2
    /\ Learned(q_table)

\* C28: no run_once returns an output of type suggest_break, enter_focus_mode or
\* none, and every returned output has no duration: type and parameters are the
\* ones the templater set for the chosen action, so neither the break-to-focus
\* coercion of ColdBoss and SarcasticFighter nor the 'none' silencing of
\* StandardAssistant fires inside the pipeline.
C28_NoCoercionInPipeline ==
    (call.op = "run_once" /\ ~call.raised) =>
        LET templated == map_action_to_output(call.a, guess_task(call.x),
                                              call.x.personality)
        IN  /\ call.out.type \notin {"suggest_break", "enter_focus_mode", "none"}
            /\ call.out.duration = << >>
            /\ call.out.type = templated.type
            /\ call.out.related_task = templated.related_task
            /\ templated.type \notin {"suggest_break", "none"}

\* C28 witness: a tired user under ColdBoss gets the energy-boost suggestion, not a
\* focus mode with a duration
C28_Witness ==
    /\ call.op = "run_once"
    /\ call.x = X_TIRED("ColdBoss")
    /\ call.a = A_ENERGY_BOOST
    /\ call.out.type = "energy_boost_suggestion"
    /\ call.out.duration = << >>

\* C29: silence is preserved.  For every personality an empty templated text --
\* of A_NONE, of A_GENTLE_PRESENCE or of an id outside the catalog -- leaves the
\* filter empty, with action type silent_companionship or quiet_companionship;
\* and the filter adds nothing to any empty text it is given.
C29_SilencePreserved ==
    LET Silent(a) == a \in {A_NONE, A_GENTLE_PRESENCE} \/ a \notin CatalogIds
        Quiet(out) == /\ out.text = << >>
                      /\ out.type \in {"silent_companionship", "quiet_companionship"}
    IN  /\ (call.op = "filter" /\ call.given.text = << >>) => call.out.text = << >>
        /\ (call.op = "filter" /\ call.action_id # NoResult /\ Silent(call.action_id)) =>
              (Quiet(call.given) /\ Quiet(call.out))
        /\ (call.op = "run_once" /\ ~call.raised /\ Silent(call.a)) => Quiet(call.out)

\* C29 witness: the AnimeWizard filter was given the templated no-op action and
\* returned it without its framing phrase
C29_Witness ==
    /\ call.op = "filter"
    /\ call.personality = "AnimeWizard"
    /\ call.action_id = A_NONE
    /\ call.given.text = << >>
    /\ call.out = call.given
    /\ call.out.type = "silent_companionship"

-----------------------------------------------------------------------------
(* Restart after a save: src/emate/micro/qlearning.py, __init__, _load, _save *)
(* Here pc holds no call in progress but one frame about the learner that    *)
(* wrote the document: its table when its last _save succeeded, and its      *)
(* table and epsilon when it was last seen.  The frame is dropped when a     *)
(* later _save truncates the document.                                       *)

PreviousLearner(saved, q, eps) ==
    [op |-> "previous", saved |-> saved, q_table |-> q, epsilon |-> eps]

\* QLearningNode.update(s, a, r, ns), remembering the table a successful _save wrote
RestartUpdate(s, a, r, ns, outcome) ==
    /\ updates < MaxUpdates
    /\ LET res == update_result(q_table, epsilon, doc, cfg, s, a, r, ns, outcome) IN
        /\ q_table' = res.q
        /\ epsilon' = res.eps
        /\ doc' = res.doc
        /\ call' = CallRec("update", s, a, r, ns, NoResult, res.raised, "none",
                           IF res.raised THEN "none" ELSE outcome, NoOutput)
        /\ pc' = IF ~res.raised /\ outcome = "ok"
                 THEN <<PreviousLearner(res.q, res.q, res.eps)>>
                 ELSE IF res.doc # doc THEN NoThreads
                 ELSE pc
    /\ updates' = updates + 1
    /\ UNCHANGED cfg

\* variant: the new learner starts from the previous learner's epsilon
RestartConstruct_keeps_epsilon ==
    /\ call.op # "init"
    /\ q_table' = load(doc)
    /\ epsilon' = epsilon
    /\ call' = InitCall
    /\ pc' = IF pc = NoThreads THEN pc
             ELSE <<PreviousLearner(pc[1].saved, q_table, epsilon)>>
    /\ UNCHANGED <<doc, cfg, updates>>

\* QLearningNode.__init__ of a new learner on the document as it is now, with
\* the same constructor arguments
RestartConstruct ==
    /\ call.op # "init"
    /\ q_table' = load(doc)
    /\ epsilon' = cfg.epsilon
    /\ call' = InitCall
    /\ pc' = IF pc = NoThreads THEN pc
             ELSE <<PreviousLearner(pc[1].saved, q_table, epsilon)>>
    /\ UNCHANGED <<doc, cfg, updates>>

NextRestart ==
    \/ \E s \in StateKeys : SelectExplore(s)
    \/ \E s \in StateKeys : SelectGreedy(s)
    \/ \E u \in UpdateArgs, o \in SaveOutcomes : RestartUpdate(u.s, u.a, u.r, u.ns, o)
    \/ RestartConstruct

SpecRestart == Init /\ [][NextRestart]_vars

\* C30: restart round trip.  A learner constructed on the document that the
\* last successful update of a previous learner wrote has the previous
\* learner's table at that save, and the configured epsilon.
C30_RestartRoundTrip ==
    (call.op = "init" /\ pc # NoThreads) =>
        /\ q_table = pc[1].saved
        /\ epsilon = cfg.epsilon

\* C30 witness: the previous learner had decayed its epsilon and had a row
\* created after its last successful save; the new learner has neither
C30_Witness ==
    /\ call.op = "init"
    /\ pc # NoThreads
    /\ q_table = pc[1].saved
    /\ DOMAIN pc[1].q_table.rows # DOMAIN q_table.rows
    /\ pc[1].epsilon < epsilon
    /\ epsilon = cfg.epsilon

====
